---- MODULE Spec2Model ----
(***************************************************************************)
(* Model of extract_stock_info (Financial-MCP-Agent/test_extraction.py).   *)
(*                                                                         *)
(* A Python str is a sequence of Unicode code points (naturals); the       *)
(* literals of the source are written as code-point tuples with the        *)
(* original text in the comment beside them.  The regular expressions of   *)
(* the source are syntax trees, matched by a backtracking matcher that     *)
(* tries alternatives in the order of Python's re module (leftmost start,  *)
(* alternatives left to right, greedy = longest first, lazy = shortest     *)
(* first).  The function body is a step machine: one step per rule.        *)
(*                                                                         *)
(* Further down: get_latest_trading_date (a-share-mcp-is-just-i-need,      *)
(* src/tools/date_utils.py) and the macroeconomic tools with               *)
(* safe_data_source_call (src/tools/macroeconomic.py, src/tools/base.py),  *)
(* each a step machine with a specification of its own; and safe_login,    *)
(* safe_logout and baostock_login_context (src/utils.py) run by threads.   *)
(***************************************************************************)
EXTENDS Integers, Sequences, FiniteSets

----------------------------------------------------------------------------
(* Literals of the source, as code points *)

QingBangWoFenXiYiXia == <<35831, 24110, 25105, 20998, 26512, 19968, 19979>>  \* 请帮我分析一下
FenXiYiXia == <<20998, 26512, 19968, 19979>>  \* 分析一下
FenXi == <<20998, 26512>>  \* 分析
BangWoKanKan == <<24110, 25105, 30475, 30475>>  \* 帮我看看
ZheZhi == <<36825, 21482>>  \* 这只
ZheGe == <<36825, 20010>>  \* 这个
GuPiao == <<32929, 31080>>  \* 股票
WoXiangLiaoJieYiXia == <<25105, 24819, 20102, 35299, 19968, 19979>>  \* 我想了解一下
LiaoJieYiXia == <<20102, 35299, 19968, 19979>>  \* 了解一下
GeiWoFenXiYiXia == <<32473, 25105, 20998, 26512, 19968, 19979>>  \* 给我分析一下
De == <<30340>>  \* 的
Zai == <<22312>>  \* 在
Zhong == <<20013>>  \* 中
MianLin == <<38754, 20020>>  \* 面临
ZhiDeMai == <<20540, 24471, 20080>>  \* 值得买
ZuiJinBiaoXian == <<26368, 36817, 34920, 29616>>  \* 最近表现
YiXia == <<19968, 19979>>  \* 一下
KanKan == <<30475, 30475>>  \* 看看
LiaoJie == <<20102, 35299>>  \* 了解
BangWo == <<24110, 25105>>  \* 帮我
WoXiang == <<25105, 24819>>  \* 我想
GeiWo == <<32473, 25105>>  \* 给我
CaiWuZhuangKuang == <<36130, 21153, 29366, 20917>>  \* 财务状况
TouZiJiaZhi == <<25237, 36164, 20215, 20540>>  \* 投资价值
JiBenMianQingKuang == <<22522, 26412, 38754, 24773, 20917>>  \* 基本面情况
ZheZhiGuPiao == <<36825, 21482, 32929, 31080>>  \* 这只股票
ZheGeGuPiao == <<36825, 20010, 32929, 31080>>  \* 这个股票
CaiWuBiaoXian == <<36130, 21153, 34920, 29616>>  \* 财务表现
YingLiNengLi == <<30408, 21033, 33021, 21147>>  \* 盈利能力
XianJinLiuZhuangKuang == <<29616, 37329, 27969, 29366, 20917>>  \* 现金流状况
ZiChanFuZhaiQingKuang == <<36164, 20135, 36127, 20538, 24773, 20917>>  \* 资产负债情况
JiShuMian == <<25216, 26415, 38754>>  \* 技术面
GuJiaZouShi == <<32929, 20215, 36208, 21183>>  \* 股价走势
JiShuZhiBiao == <<25216, 26415, 25351, 26631>>  \* 技术指标
JiShuMianBiaoXian == <<25216, 26415, 38754, 34920, 29616>>  \* 技术面表现
GuZhiShuiPing == <<20272, 20540, 27700, 24179>>  \* 估值水平
ShiYingLv == <<24066, 30408, 29575>>  \* 市盈率
ShiJingLv == <<24066, 20928, 29575>>  \* 市净率
GuZhi == <<20272, 20540>>  \* 估值
TouZiFengXian == <<25237, 36164, 39118, 38505>>  \* 投资风险
FengXianYinSu == <<39118, 38505, 22240, 32032>>  \* 风险因素
FengXianPingGu == <<39118, 38505, 35780, 20272>>  \* 风险评估
JiBenMian == <<22522, 26412, 38754>>  \* 基本面

\* variant: stop_words without 帮我 and 我想
stop_wordsNoVerbs ==
    << De, ZheGe, ZheZhi, YiXia, KanKan, LiaoJie, FenXi, GeiWo,
       CaiWuZhuangKuang, TouZiJiaZhi, JiBenMianQingKuang, ZheZhiGuPiao, ZheGeGuPiao >>

\* stop_words, in list order (line 154)
stop_words ==
    << De, ZheGe, ZheZhi, YiXia, KanKan, LiaoJie, FenXi, BangWo, WoXiang, GeiWo,
       CaiWuZhuangKuang, TouZiJiaZhi, JiBenMianQingKuang, ZheZhiGuPiao, ZheGeGuPiao >>

\* the topic alternation of pattern14, in source order (line 110)
Topics ==
    << CaiWuBiaoXian, YingLiNengLi, XianJinLiuZhuangKuang, ZiChanFuZhaiQingKuang,
       JiShuMian, GuJiaZouShi, JiShuZhiBiao, JiShuMianBiaoXian, GuZhiShuiPing,
       ShiYingLv, ShiJingLv, GuZhi, TouZiFengXian, FengXianYinSu, FengXianPingGu,
       TouZiJiaZhi, GuPiao, JiBenMianQingKuang, JiBenMian, CaiWuZhuangKuang >>

----------------------------------------------------------------------------
(* Character classes of Python 3 str patterns *)

\* \s : Unicode whitespace (str.isspace), also what str.strip() removes
IsSpace(c) ==
    \/ c \in 9..13 \/ c \in 28..32 \/ c = 133 \/ c = 160 \/ c = 5760
    \/ c \in 8192..8202 \/ c = 8232 \/ c = 8233 \/ c = 8239 \/ c = 8287 \/ c = 12288

\* [0-9] : ASCII digits only
IsAsciiDigit(c) == c \in 48..57

\* \d : decimal digits; ASCII and full-width forms are the ones written here
IsDigit(c) == c \in 48..57 \/ c \in 65296..65305

\* \w : letters, digits and underscore (ASCII, CJK ideographs, full-width digits)
IsWord(c) ==
    \/ c \in 48..57 \/ c \in 65..90 \/ c \in 97..122 \/ c = 95
    \/ c \in 19968..40959 \/ c \in 65296..65305

\* variant: the full-width opening parenthesis forgotten
IsOpenHalfOnly(c) == c = 40
IsOpen(c)  == c = 40 \/ c = 65288      \* [（(]
IsClose(c) == c = 41 \/ c = 65289      \* [)）]

InClass(k, c) ==
    CASE k = "space"    -> IsSpace(c)                                     \* \s
      [] k = "digit"    -> IsDigit(c)                                     \* \d
      [] k = "open"     -> IsOpen(c)                                      \* [（(]
      [] k = "close"    -> IsClose(c)                                     \* [)）]
      [] k = "notopen"  -> ~IsOpen(c)                                     \* [^（(]
      [] k = "notclose" -> ~IsClose(c)                                    \* [^）)]
      [] k = "name"     -> ~(IsAsciiDigit(c) \/ IsOpen(c) \/ IsClose(c) \/ IsSpace(c))
                                                                          \* [^0-9（）()\s]

----------------------------------------------------------------------------
(* Regular-expression syntax trees *)

Lit(w)        == [t |-> "lit", w |-> w]
Cls(k)        == [t |-> "cls", k |-> k]
Cat(rs)       == [t |-> "cat", rs |-> rs]
Alt(rs)       == [t |-> "alt", rs |-> rs]
Grp(n, r)     == [t |-> "grp", n |-> n, r |-> r]
\* r{lo,hi}; unb: no upper limit; greedy: longest first
Rep(r, lo, hi, unb, greedy) ==
    [t |-> "rep", r |-> r, lo |-> lo, hi |-> hi, unb |-> unb, greedy |-> greedy]
Star(r)       == Rep(r, 0, 0, TRUE, TRUE)      \* r*
Plus(r)       == Rep(r, 1, 0, TRUE, TRUE)      \* r+
PlusLazy(r)   == Rep(r, 1, 0, TRUE, FALSE)     \* r+?
Opt(r)        == Rep(r, 0, 1, FALSE, TRUE)     \* r?
Bol           == [t |-> "bol"]                 \* ^
Eol           == [t |-> "eol"]                 \* $
Wb            == [t |-> "wb"]                  \* \b
SetStart(n)   == [t |-> "gs", n |-> n]
SetEnd(n)     == [t |-> "ge", n |-> n]

\* variants: \d{4,6} and \d{6}
CodeFourToSix == Rep(Cls("digit"), 4, 6, FALSE, TRUE)
CodeSixOnly   == Rep(Cls("digit"), 6, 6, FALSE, TRUE)
Sp    == Star(Cls("space"))                           \* \s*
Code == Rep(Cls("digit"), 5, 6, FALSE, TRUE)          \* \d{5,6}

NoMatch == [ok |-> FALSE, g |-> << <<0, 0>>, <<0, 0>> >>]

SubSeqAt(s, i, n) == SubSeq(s, i, i + n - 1)

HasAt(s, i, w) == i + Len(w) - 1 <= Len(s) /\ SubSeqAt(s, i, Len(w)) = w

\* \b at position i (between s[i-1] and s[i])
AtWordBoundary(s, i) ==
    LET before == i > 1 /\ IsWord(s[i - 1])
        after  == i <= Len(s) /\ IsWord(s[i])
    IN  before # after

\* $ : at the end, or just before a final newline
AtEnd(s, i) == i = Len(s) + 1 \/ (i = Len(s) /\ s[i] = 10)

(***************************************************************************)
(* Run(k, s, i, g): match the list k of nodes one after the other from     *)
(* position i of s, with group spans g; the first success in backtracking  *)
(* order, or NoMatch.  A group span is <<first, past-the-end>>.            *)
(***************************************************************************)
RECURSIVE Run(_, _, _, _)
RECURSIVE RunAlt(_, _, _, _, _, _)

Run(k, s, i, g) ==
    IF k = <<>> THEN [ok |-> TRUE, g |-> g]
    ELSE
    LET r == Head(k)
        rest == Tail(k)
    IN  CASE r.t = "lit" ->
               IF HasAt(s, i, r.w) THEN Run(rest, s, i + Len(r.w), g) ELSE NoMatch
          [] r.t = "cls" ->
               IF i <= Len(s) /\ InClass(r.k, s[i]) THEN Run(rest, s, i + 1, g) ELSE NoMatch
          [] r.t = "bol" -> IF i = 1 THEN Run(rest, s, i, g) ELSE NoMatch
          [] r.t = "eol" -> IF AtEnd(s, i) THEN Run(rest, s, i, g) ELSE NoMatch
          [] r.t = "wb"  -> IF AtWordBoundary(s, i) THEN Run(rest, s, i, g) ELSE NoMatch
          [] r.t = "cat" -> Run(r.rs \o rest, s, i, g)
          [] r.t = "alt" -> RunAlt(r.rs, 1, rest, s, i, g)
          [] r.t = "grp" -> Run(<<SetStart(r.n), r.r, SetEnd(r.n)>> \o rest, s, i, g)
          [] r.t = "gs"  -> Run(rest, s, i, [g EXCEPT ![r.n] = <<i, i>>])
          [] r.t = "ge"  -> Run(rest, s, i, [g EXCEPT ![r.n] = <<g[r.n][1], i>>])
          [] r.t = "rep" ->
               LET canMore == r.unb \/ r.hi > 0
                   next == [r EXCEPT !.lo = IF r.lo > 0 THEN r.lo - 1 ELSE 0,
                                     !.hi = IF r.hi > 0 THEN r.hi - 1 ELSE 0]
                   more == IF canMore THEN Run(<<r.r, next>> \o rest, s, i, g) ELSE NoMatch
                   stop == IF r.lo = 0 THEN Run(rest, s, i, g) ELSE NoMatch
               IN  IF r.greedy
                   THEN (IF more.ok THEN more ELSE stop)
                   ELSE (IF stop.ok THEN stop ELSE more)

RunAlt(rs, j, rest, s, i, g) ==
    IF j > Len(rs) THEN NoMatch
    ELSE LET m == Run(<<rs[j]>> \o rest, s, i, g)
         IN  IF m.ok THEN m ELSE RunAlt(rs, j + 1, rest, s, i, g)

\* re.search(pattern, s): the match at the leftmost start position
RECURSIVE SearchFrom(_, _, _)
SearchFrom(r, s, i) ==
    IF i > Len(s) + 1 THEN NoMatch
    ELSE LET m == Run(<<r>>, s, i, NoMatch.g)
         IN  IF m.ok THEN m ELSE SearchFrom(r, s, i + 1)

re_search(r, s) == SearchFrom(r, s, 1)

\* match.group(n)
group(m, s, n) == SubSeq(s, m.g[n][1], m.g[n][2] - 1)

----------------------------------------------------------------------------
(* The twenty patterns (lines 16-146) *)

\* PREFIX\s*([^（(]+?)\s*[（(](\d{5,6})[)）]
NameThenCode(prefix) ==
    Cat(<< Lit(prefix), Sp, Grp(1, PlusLazy(Cls("notopen"))), Sp,
           Cls("open"), Grp(2, Code), Cls("close") >>)

\* PREFIX\s*([^0-9（）()\s]+?)(?:\s*的|\s|$)
NameThenDe(prefix) ==
    Cat(<< Lit(prefix), Sp, Grp(1, PlusLazy(Cls("name"))),
           Alt(<< Cat(<<Sp, Lit(De)>>), Cls("space"), Eol >>) >>)

pattern1 == NameThenCode(QingBangWoFenXiYiXia)
pattern2 == NameThenCode(FenXiYiXia)
pattern3 == NameThenCode(FenXi)
\* 分析\s*[（(](\d{5,6})[)）]\s*([^）)]+)
pattern4 ==
    Cat(<< Lit(FenXi), Sp, Cls("open"), Grp(1, Code), Cls("close"), Sp,
           Grp(2, Plus(Cls("notclose"))) >>)
\* variant: the name group of pattern5 greedy
pattern5Greedy ==
    Cat(<< Lit(BangWoKanKan), Sp, Cls("open"), Grp(1, Code), Cls("close"), Sp,
           Grp(2, Plus(Cls("notclose"))),
           Opt(Alt(<< Cat(<<Sp, Lit(ZheZhi)>>), Cat(<<Sp, Lit(ZheGe)>>) >>)),
           Sp, Lit(GuPiao) >>)
\* 帮我看看\s*[（(](\d{5,6})[)）]\s*([^）)]+?)(?:\s*这只|\s*这个)?\s*股票
pattern5 ==
    Cat(<< Lit(BangWoKanKan), Sp, Cls("open"), Grp(1, Code), Cls("close"), Sp,
           Grp(2, PlusLazy(Cls("notclose"))),
           Opt(Alt(<< Cat(<<Sp, Lit(ZheZhi)>>), Cat(<<Sp, Lit(ZheGe)>>) >>)),
           Sp, Lit(GuPiao) >>)
pattern6 == NameThenCode(WoXiangLiaoJieYiXia)
pattern7 == NameThenCode(BangWoKanKan)
\* ^([^（(]+?)\s*[（(](\d{5,6})[)）]
pattern8 ==
    Cat(<< Bol, Grp(1, PlusLazy(Cls("notopen"))), Sp,
           Cls("open"), Grp(2, Code), Cls("close") >>)
pattern9 == NameThenDe(FenXiYiXia)
\* 分析\s*([^0-9（）()\s]+)
pattern10 == Cat(<< Lit(FenXi), Sp, Grp(1, Plus(Cls("name"))) >>)
\* ([^0-9（）()\s]+)\s*(?:这只|这个|的)?\s*股票
pattern11 ==
    Cat(<< Grp(1, Plus(Cls("name"))), Sp,
           Opt(Alt(<< Lit(ZheZhi), Lit(ZheGe), Lit(De) >>)), Sp, Lit(GuPiao) >>)
\* variant: the keyword cut to 了解
pattern12Short == NameThenDe(LiaoJie)
pattern12 == NameThenDe(LiaoJieYiXia)
pattern13 == NameThenDe(GeiWoFenXiYiXia)
\* variant: pattern14 with the first topic only
pattern14OneTopic ==
    Cat(<< Grp(1, PlusLazy(Cls("name"))), Sp, Lit(De), Sp, Lit(CaiWuBiaoXian) >>)
\* ([^0-9（）()\s]+?)\s*的\s*(?:财务表现|...|财务状况)
pattern14 ==
    Cat(<< Grp(1, PlusLazy(Cls("name"))), Sp, Lit(De), Sp,
           Alt([j \in 1..Len(Topics) |-> Lit(Topics[j])]) >>)
\* ([^0-9（）()\s]+?)\s*在\s*[^0-9（）()\s]*\s*中
pattern15 ==
    Cat(<< Grp(1, PlusLazy(Cls("name"))), Sp, Lit(Zai), Sp,
           Star(Cls("name")), Sp, Lit(Zhong) >>)
\* ([^0-9（）()\s]+?)\s*在\s*[^0-9（）()\s]*\s*中\s*的
pattern16 ==
    Cat(<< Grp(1, PlusLazy(Cls("name"))), Sp, Lit(Zai), Sp,
           Star(Cls("name")), Sp, Lit(Zhong), Sp, Lit(De) >>)
\* ([^0-9（）()\s]+?)\s*面临
pattern17 == Cat(<< Grp(1, PlusLazy(Cls("name"))), Sp, Lit(MianLin) >>)
\* variant: (\d{5,6}) without the word boundaries
pattern18NoBoundary == Cat(<< Grp(1, Code) >>)
\* \b(\d{5,6})\b
pattern18 == Cat(<< Wb, Grp(1, Code), Wb >>)
\* (\d{5,6})\s*(?:这个|这只)?\s*股票\s*值得买
pattern19 ==
    Cat(<< Grp(1, Code), Sp, Opt(Alt(<< Lit(ZheGe), Lit(ZheZhi) >>)), Sp,
           Lit(GuPiao), Sp, Lit(ZhiDeMai) >>)
\* (\d{5,6})\s*这个\s*股票\s*最近表现
pattern20 ==
    Cat(<< Grp(1, Code), Sp, Lit(ZheGe), Sp, Lit(GuPiao), Sp, Lit(ZuiJinBiaoXian) >>)

\* rule number -> pattern, and which group is the name / the code (0: none)
Rules ==
    << [re |-> pattern1,  name |-> 1, code |-> 2],
       [re |-> pattern2,  name |-> 1, code |-> 2],
       [re |-> pattern3,  name |-> 1, code |-> 2],
       [re |-> pattern4,  name |-> 2, code |-> 1],
       [re |-> pattern5,  name |-> 2, code |-> 1],
       [re |-> pattern6,  name |-> 1, code |-> 2],
       [re |-> pattern7,  name |-> 1, code |-> 2],
       [re |-> pattern8,  name |-> 1, code |-> 2],
       [re |-> pattern9,  name |-> 1, code |-> 0],
       [re |-> pattern10, name |-> 1, code |-> 0],
       [re |-> pattern11, name |-> 1, code |-> 0],
       [re |-> pattern12, name |-> 1, code |-> 0],
       [re |-> pattern13, name |-> 1, code |-> 0],
       [re |-> pattern14, name |-> 1, code |-> 0],
       [re |-> pattern15, name |-> 1, code |-> 0],
       [re |-> pattern16, name |-> 1, code |-> 0],
       [re |-> pattern17, name |-> 1, code |-> 0],
       [re |-> pattern18, name |-> 0, code |-> 1],
       [re |-> pattern19, name |-> 0, code |-> 1],
       [re |-> pattern20, name |-> 0, code |-> 1] >>

CombinedRules == 1..8
NameRules     == 9..17
CodeRules     == 18..20

----------------------------------------------------------------------------
(* str methods *)

\* str.strip()
RECURSIVE lstrip(_)
lstrip(s) == IF s # <<>> /\ IsSpace(Head(s)) THEN lstrip(Tail(s)) ELSE s
RECURSIVE rstrip(_)
rstrip(s) ==
    IF s # <<>> /\ IsSpace(s[Len(s)]) THEN rstrip(SubSeq(s, 1, Len(s) - 1)) ELSE s
strip(s) == rstrip(lstrip(s))

\* str.replace(w, ''): the non-overlapping occurrences of w, left to right
RECURSIVE remove(_, _)
remove(s, w) ==
    IF s = <<>> THEN <<>>
    ELSE IF HasAt(s, 1, w) THEN remove(SubSeq(s, Len(w) + 1, Len(s)), w)
    ELSE <<Head(s)>> \o remove(Tail(s), w)

\* w in s
contains(s, w) == \E i \in 1..Len(s) : HasAt(s, i, w)

----------------------------------------------------------------------------
(* Optional values: None, or a str *)

None    == [some |-> FALSE, v |-> <<>>]
Some(x) == [some |-> TRUE, v |-> x]
\* truth value of an optional str: None and '' are false
Truthy(x) == x.some /\ x.v # <<>>

\* lines 155-156: for word in stop_words: name = name.replace(word, '').strip()
RECURSIVE RemoveStopWords(_, _)
RemoveStopWords(name, j) ==
    IF j > Len(stop_words) THEN name
    ELSE RemoveStopWords(strip(remove(name, stop_words[j])), j + 1)

\* variant: the cleanup keeps a name of one character
CleanNameKeepOne(name) ==
    IF Truthy(name)
    THEN LET c == RemoveStopWords(name.v, 1)
         IN  IF Len(c) < 1 THEN None ELSE Some(c)
    ELSE name

\* lines 152-160
CleanName(name) ==
    IF Truthy(name)
    THEN LET c == RemoveStopWords(name.v, 1)
         IN  IF Len(c) < 2 THEN None ELSE Some(c)
    ELSE name

----------------------------------------------------------------------------
(* Inputs *)

\* the table test_cases of test_extraction (lines 168-276): query, expected pair
test_cases ==
    <<
       [q |-> <<20998, 26512, 22025, 21451, 22269, 38469>>, name |-> Some(<<22025, 21451, 22269, 38469>>), code |-> None],  \* 172: 分析嘉友国际
       [q |-> <<20998, 26512, 22025, 21451, 22269, 38469, 40, 54, 48, 51, 56, 55, 49, 41>>, name |-> Some(<<22025, 21451, 22269, 38469>>), code |-> Some(<<54, 48, 51, 56, 55, 49>>)],  \* 173: 分析嘉友国际(603871)
       [q |-> <<20998, 26512, 40, 54, 48, 51, 56, 55, 49, 41, 22025, 21451, 22269, 38469>>, name |-> Some(<<22025, 21451, 22269, 38469>>), code |-> Some(<<54, 48, 51, 56, 55, 49>>)],  \* 174: 分析(603871)嘉友国际
       [q |-> <<20998, 26512, 32, 22025, 21451, 22269, 38469, 32, 40, 54, 48, 51, 56, 55, 49, 41>>, name |-> Some(<<22025, 21451, 22269, 38469>>), code |-> Some(<<54, 48, 51, 56, 55, 49>>)],  \* 175: 分析 嘉友国际 (603871)
       [q |-> <<20998, 26512, 22025, 21451, 22269, 38469, 65288, 54, 48, 51, 56, 55, 49, 65289>>, name |-> Some(<<22025, 21451, 22269, 38469>>), code |-> Some(<<54, 48, 51, 56, 55, 49>>)],  \* 176: 分析嘉友国际（603871）
       [q |-> <<20998, 26512, 22025, 21451, 22269, 38469, 40, 54, 48, 51, 56, 55, 49, 65289>>, name |-> Some(<<22025, 21451, 22269, 38469>>), code |-> Some(<<54, 48, 51, 56, 55, 49>>)],  \* 177: 分析嘉友国际(603871）
       [q |-> <<20998, 26512, 65288, 54, 48, 51, 56, 55, 49, 65289, 22025, 21451, 22269, 38469>>, name |-> Some(<<22025, 21451, 22269, 38469>>), code |-> Some(<<54, 48, 51, 56, 55, 49>>)],  \* 178: 分析（603871）嘉友国际
       [q |-> <<35831, 24110, 25105, 20998, 26512, 19968, 19979, 22025, 21451, 22269, 38469, 40, 54, 48, 51, 56, 55, 49, 41, 36825, 21482, 32929, 31080, 30340, 25237, 36164, 20215, 20540, 22914, 20309>>, name |-> Some(<<22025, 21451, 22269, 38469>>), code |-> Some(<<54, 48, 51, 56, 55, 49>>)],  \* 183: 请帮我分析一下嘉友国际(603871)这只股票的投资价值如何
       [q |-> <<20998, 26512, 19968, 19979, 22025, 21451, 22269, 38469, 40, 54, 48, 51, 56, 55, 49, 41, 30340, 36130, 21153, 29366, 20917>>, name |-> Some(<<22025, 21451, 22269, 38469>>), code |-> Some(<<54, 48, 51, 56, 55, 49>>)],  \* 184: 分析一下嘉友国际(603871)的财务状况
       [q |-> <<32473, 25105, 20998, 26512, 19968, 19979, 23425, 24503, 26102, 20195, 30340, 36130, 21153, 29366, 20917>>, name |-> Some(<<23425, 24503, 26102, 20195>>), code |-> None],  \* 185: 给我分析一下宁德时代的财务状况
       [q |-> <<20998, 26512, 19968, 19979, 27604, 20122, 36842, 30340, 22522, 26412, 38754, 24773, 20917>>, name |-> Some(<<27604, 20122, 36842>>), code |-> None],  \* 186: 分析一下比亚迪的基本面情况
       [q |-> <<35831, 24110, 25105, 20998, 26512, 19968, 19979, 33150, 35759, 40, 48, 48, 55, 48, 48, 41, 30340, 25237, 36164, 20215, 20540>>, name |-> Some(<<33150, 35759>>), code |-> Some(<<48, 48, 55, 48, 48>>)],  \* 187: 请帮我分析一下腾讯(00700)的投资价值
       [q |-> <<24110, 25105, 30475, 30475, 27604, 20122, 36842, 36825, 21482, 32929, 31080, 24590, 20040, 26679>>, name |-> Some(<<27604, 20122, 36842>>), code |-> None],  \* 192: 帮我看看比亚迪这只股票怎么样
       [q |-> <<25105, 24819, 20102, 35299, 19968, 19979, 33150, 35759, 30340, 25237, 36164, 20215, 20540>>, name |-> Some(<<33150, 35759>>), code |-> None],  \* 193: 我想了解一下腾讯的投资价值
       [q |-> <<24110, 25105, 30475, 30475, 40, 48, 48, 48, 48, 48, 49, 41, 24179, 23433, 38134, 34892, 36825, 21482, 32929, 31080>>, name |-> Some(<<24179, 23433, 38134, 34892>>), code |-> Some(<<48, 48, 48, 48, 48, 49>>)],  \* 194: 帮我看看(000001)平安银行这只股票
       [q |-> <<25105, 24819, 20102, 35299, 19968, 19979, 27604, 20122, 36842, 40, 48, 48, 50, 53, 57, 52, 41, 30340, 25237, 36164, 20215, 20540>>, name |-> Some(<<27604, 20122, 36842>>), code |-> Some(<<48, 48, 50, 53, 57, 52>>)],  \* 195: 我想了解一下比亚迪(002594)的投资价值
       [q |-> <<24110, 25105, 30475, 30475, 33541, 21488, 36825, 21482, 32929, 31080, 30340, 22522, 26412, 38754>>, name |-> Some(<<33541, 21488>>), code |-> None],  \* 196: 帮我看看茅台这只股票的基本面
       [q |-> <<54, 48, 51, 56, 55, 49, 32, 36825, 20010, 32929, 31080, 20540, 24471, 20080, 21527, 65311>>, name |-> None, code |-> Some(<<54, 48, 51, 56, 55, 49>>)],  \* 201: 603871 这个股票值得买吗？
       [q |-> <<54, 48, 51, 56, 55, 49, 36825, 20010, 32929, 31080, 26368, 36817, 34920, 29616, 24590, 20040, 26679, 65292, 20540, 24471, 25237, 36164, 21527>>, name |-> None, code |-> Some(<<54, 48, 51, 56, 55, 49>>)],  \* 202: 603871这个股票最近表现怎么样，值得投资吗
       [q |-> <<48, 48, 48, 48, 48, 49>>, name |-> None, code |-> Some(<<48, 48, 48, 48, 48, 49>>)],  \* 203: 000001
       [q |-> <<48, 48, 50, 53, 57, 52>>, name |-> None, code |-> Some(<<48, 48, 50, 53, 57, 52>>)],  \* 204: 002594
       [q |-> <<54, 48, 48, 48, 51, 54>>, name |-> None, code |-> Some(<<54, 48, 48, 48, 51, 54>>)],  \* 205: 600036
       [q |-> <<22025, 21451, 22269, 38469, 36825, 21482, 32929, 31080, 20540, 24471, 25237, 36164, 21527>>, name |-> Some(<<22025, 21451, 22269, 38469>>), code |-> None],  \* 210: 嘉友国际这只股票值得投资吗
       [q |-> <<27604, 20122, 36842, 30340, 25237, 36164, 20215, 20540, 22914, 20309>>, name |-> Some(<<27604, 20122, 36842>>), code |-> None],  \* 211: 比亚迪的投资价值如何
       [q |-> <<33150, 35759, 30340, 32929, 31080, 24590, 20040, 26679>>, name |-> Some(<<33150, 35759>>), code |-> None],  \* 212: 腾讯的股票怎么样
       [q |-> <<24179, 23433, 38134, 34892, 40, 48, 48, 48, 48, 48, 49, 41, 20540, 24471, 20080, 21527>>, name |-> Some(<<24179, 23433, 38134, 34892>>), code |-> Some(<<48, 48, 48, 48, 48, 49>>)],  \* 213: 平安银行(000001)值得买吗
       [q |-> <<33541, 21488, 40, 54, 48, 48, 53, 49, 57, 41, 30340, 25237, 36164, 20215, 20540, 20998, 26512>>, name |-> Some(<<33541, 21488>>), code |-> Some(<<54, 48, 48, 53, 49, 57>>)],  \* 214: 茅台(600519)的投资价值分析
       [q |-> <<20998, 26512, 19968, 19979, 23425, 24503, 26102, 20195, 30340, 36130, 21153, 29366, 20917>>, name |-> Some(<<23425, 24503, 26102, 20195>>), code |-> None],  \* 219: 分析一下宁德时代的财务状况
       [q |-> <<22025, 21451, 22269, 38469, 30340, 36130, 21153, 34920, 29616, 22914, 20309>>, name |-> Some(<<22025, 21451, 22269, 38469>>), code |-> None],  \* 220: 嘉友国际的财务表现如何
       [q |-> <<27604, 20122, 36842, 30340, 30408, 21033, 33021, 21147, 24590, 20040, 26679>>, name |-> Some(<<27604, 20122, 36842>>), code |-> None],  \* 221: 比亚迪的盈利能力怎么样
       [q |-> <<33150, 35759, 30340, 29616, 37329, 27969, 29366, 20917>>, name |-> Some(<<33150, 35759>>), code |-> None],  \* 222: 腾讯的现金流状况
       [q |-> <<24179, 23433, 38134, 34892, 30340, 36164, 20135, 36127, 20538, 24773, 20917>>, name |-> Some(<<24179, 23433, 38134, 34892>>), code |-> None],  \* 223: 平安银行的资产负债情况
       [q |-> <<22025, 21451, 22269, 38469, 30340, 25216, 26415, 38754, 24590, 20040, 26679>>, name |-> Some(<<22025, 21451, 22269, 38469>>), code |-> None],  \* 228: 嘉友国际的技术面怎么样
       [q |-> <<27604, 20122, 36842, 30340, 32929, 20215, 36208, 21183, 20998, 26512>>, name |-> Some(<<27604, 20122, 36842>>), code |-> None],  \* 229: 比亚迪的股价走势分析
       [q |-> <<33150, 35759, 30340, 25216, 26415, 25351, 26631, 22914, 20309>>, name |-> Some(<<33150, 35759>>), code |-> None],  \* 230: 腾讯的技术指标如何
       [q |-> <<24179, 23433, 38134, 34892, 40, 48, 48, 48, 48, 48, 49, 41, 30340, 25216, 26415, 20998, 26512>>, name |-> Some(<<24179, 23433, 38134, 34892>>), code |-> Some(<<48, 48, 48, 48, 48, 49>>)],  \* 231: 平安银行(000001)的技术分析
       [q |-> <<33541, 21488, 30340, 25216, 26415, 38754, 34920, 29616>>, name |-> Some(<<33541, 21488>>), code |-> None],  \* 232: 茅台的技术面表现
       [q |-> <<22025, 21451, 22269, 38469, 30340, 20272, 20540, 27700, 24179, 22914, 20309>>, name |-> Some(<<22025, 21451, 22269, 38469>>), code |-> None],  \* 237: 嘉友国际的估值水平如何
       [q |-> <<27604, 20122, 36842, 30340, 24066, 30408, 29575, 20998, 26512>>, name |-> Some(<<27604, 20122, 36842>>), code |-> None],  \* 238: 比亚迪的市盈率分析
       [q |-> <<33150, 35759, 30340, 24066, 20928, 29575, 24590, 20040, 26679>>, name |-> Some(<<33150, 35759>>), code |-> None],  \* 239: 腾讯的市净率怎么样
       [q |-> <<24179, 23433, 38134, 34892, 40, 48, 48, 48, 48, 48, 49, 41, 30340, 20272, 20540>>, name |-> Some(<<24179, 23433, 38134, 34892>>), code |-> Some(<<48, 48, 48, 48, 48, 49>>)],  \* 240: 平安银行(000001)的估值
       [q |-> <<33541, 21488, 30340, 20272, 20540, 26159, 21542, 21512, 29702>>, name |-> Some(<<33541, 21488>>), code |-> None],  \* 241: 茅台的估值是否合理
       [q |-> <<22025, 21451, 22269, 38469, 22312, 34892, 19994, 20013, 30340, 22320, 20301>>, name |-> Some(<<22025, 21451, 22269, 38469>>), code |-> None],  \* 246: 嘉友国际在行业中的地位
       [q |-> <<22025, 21451, 22269, 38469, 30340, 25237, 36164, 39118, 38505, 22914, 20309>>, name |-> Some(<<22025, 21451, 22269, 38469>>), code |-> None],  \* 251: 嘉友国际的投资风险如何
       [q |-> <<27604, 20122, 36842, 38754, 20020, 30340, 20027, 35201, 39118, 38505>>, name |-> Some(<<27604, 20122, 36842>>), code |-> None],  \* 252: 比亚迪面临的主要风险
       [q |-> <<33150, 35759, 30340, 39118, 38505, 22240, 32032, 20998, 26512>>, name |-> Some(<<33150, 35759>>), code |-> None],  \* 253: 腾讯的风险因素分析
       [q |-> <<24179, 23433, 38134, 34892, 40, 48, 48, 48, 48, 48, 49, 41, 30340, 39118, 38505, 35780, 20272>>, name |-> Some(<<24179, 23433, 38134, 34892>>), code |-> Some(<<48, 48, 48, 48, 48, 49>>)],  \* 254: 平安银行(000001)的风险评估
       [q |-> <<33541, 21488, 30340, 25237, 36164, 39118, 38505>>, name |-> Some(<<33541, 21488>>), code |-> None],  \* 255: 茅台的投资风险
       [q |-> <<20998, 26512>>, name |-> None, code |-> None],  \* 260: 分析
       [q |-> <<20998, 26512, 49, 50, 51, 52, 53, 54>>, name |-> None, code |-> None],  \* 261: 分析123456
       [q |-> <<22025, 21451, 22269, 38469>>, name |-> None, code |-> None],  \* 262: 嘉友国际
       [q |-> <<54, 48, 51, 56, 55, 49>>, name |-> None, code |-> Some(<<54, 48, 51, 56, 55, 49>>)],  \* 263: 603871
       [q |-> <<>>, name |-> None, code |-> None],  \* 264: 
       [q |-> <<20998, 26512, 19968, 19979>>, name |-> None, code |-> None],  \* 265: 分析一下
       [q |-> <<24110, 25105, 30475, 30475>>, name |-> None, code |-> None],  \* 266: 帮我看看
       [q |-> <<20998, 26512, 19968, 19979, 22025, 21451, 22269, 38469, 40, 54, 48, 51, 56, 55, 49, 41, 36825, 21482, 32929, 31080, 30340, 25237, 36164, 20215, 20540, 22914, 20309>>, name |-> Some(<<22025, 21451, 22269, 38469>>), code |-> Some(<<54, 48, 51, 56, 55, 49>>)],  \* 271: 分析一下嘉友国际(603871)这只股票的投资价值如何
       [q |-> <<25105, 24819, 20102, 35299, 19968, 19979, 27604, 20122, 36842, 36825, 21482, 32929, 31080, 30340, 22522, 26412, 38754, 24773, 20917>>, name |-> Some(<<27604, 20122, 36842>>), code |-> None],  \* 272: 我想了解一下比亚迪这只股票的基本面情况
       [q |-> <<35831, 24110, 25105, 20998, 26512, 19968, 19979, 33150, 35759, 40, 48, 48, 55, 48, 48, 41, 36825, 21482, 32929, 31080, 24590, 20040, 26679>>, name |-> Some(<<33150, 35759>>), code |-> Some(<<48, 48, 55, 48, 48>>)],  \* 273: 请帮我分析一下腾讯(00700)这只股票怎么样
       [q |-> <<24110, 25105, 30475, 30475, 33541, 21488, 40, 54, 48, 48, 53, 49, 57, 41, 36825, 21482, 32929, 31080, 20540, 24471, 25237, 36164, 21527>>, name |-> Some(<<33541, 21488>>), code |-> Some(<<54, 48, 48, 53, 49, 57>>)],  \* 274: 帮我看看茅台(600519)这只股票值得投资吗
       [q |-> <<20998, 26512, 19968, 19979, 24179, 23433, 38134, 34892, 40, 48, 48, 48, 48, 48, 49, 41, 30340, 36130, 21153, 29366, 20917, 22914, 20309>>, name |-> Some(<<24179, 23433, 38134, 34892>>), code |-> Some(<<48, 48, 48, 48, 48, 49>>)]  \* 275: 分析一下平安银行(000001)的财务状况如何
    >>

MaxTokens == 3      \* fragments in a query of GeneralQueries
MaxPlain  == 3      \* fragments in a query of PlainQueries
MaxName   == 3      \* fragments in a NAME of AnalyzeQueries
MaxDigits == 7      \* digits in a query of NumericQueries

\* the strings of at most n fragments of V
RECURSIVE TokenStrings(_, _)
TokenStrings(V, n) ==
    IF n = 0 THEN { <<>> }
    ELSE LET shorter == TokenStrings(V, n - 1)
         IN  shorter \cup { s \o w : s \in shorter, w \in V }

Jia      == <<22025>>                      \* 嘉
Space    == <<32>>                         \* ' '
OpenH    == <<40>>                         \* (
OpenF    == <<65288>>                      \* （
CloseH   == <<41>>                         \* )
CloseF   == <<65289>>                      \* ）
Code5    == <<49, 50, 51, 52, 53>>         \* 12345
Code6    == <<54, 48, 51, 56, 55, 49>>     \* 603871
Digits7  == <<49, 50, 51, 52, 53, 54, 55>> \* 1234567

\* free text around the trigger words of the independent rules
GeneralVocabulary == { FenXi, YiXia, De, GuPiao, CaiWuZhuangKuang, Jia, Code6, Space }
GeneralQueries == TokenStrings(GeneralVocabulary, MaxTokens)

\* text made of pieces of trigger words, parentheses, spaces: no digit
PlainVocabulary ==
    { Jia, <<20998>>, <<26512>>, YiXia, LiaoJie, OpenH, Space }    \* 嘉 分 析 一下 了解 ( ' '
PlainQueries == TokenStrings(PlainVocabulary, MaxPlain)

\* 分析 NAME, alone or followed by a parenthesized code
NameVocabulary == { Jia, YiXia, FenXi, Space, <<36825>>, <<20010>> }   \* 嘉 一下 分析 ' ' 这 个
Brackets ==
    { o \o c \o e : o \in {OpenH, OpenF}, c \in {Code5, Code6}, e \in {CloseH, CloseF} }
AnalyzeQueries ==
    { FenXi \o n \o b : n \in TokenStrings(NameVocabulary, MaxName), b \in Brackets \cup { <<>> } }

\* every combined form: verb phrase, text, bracket, text, stock suffix
FramedQueries ==
    { p \o x \o b \o y \o t :
        p \in { <<>>, QingBangWoFenXiYiXia, FenXiYiXia, FenXi, BangWoKanKan, WoXiangLiaoJieYiXia },
        x \in { <<>>, Jia, Space, Jia \o De },
        b \in { OpenH \o Code5 \o CloseH, OpenF \o Code6 \o CloseF,
                OpenH \o Code6 \o CloseF, OpenH \o Digits7 \o CloseH },
        y \in { <<>>, Jia, Space },
        t \in { <<>>, GuPiao, ZheZhiGuPiao } }

\* runs of digits, alone or after 分析
DigitStrings == UNION { [1..n -> {49, 55}] : n \in 1..MaxDigits }      \* over 1 and 7
NumericQueries == { p \o d : p \in { <<>>, FenXi }, d \in DigitStrings }

TestQueries == { test_cases[j].q : j \in 1..Len(test_cases) }

Queries ==
    GeneralQueries \cup PlainQueries \cup AnalyzeQueries \cup FramedQueries
        \cup NumericQueries \cup TestQueries

\* --- queries of the documented forms -------------------------------------

MaxCodeFirst == 3        \* fragments of a NAME that follows the code
MaxTrail == 2            \* fragments of the text after a form

You == <<21451>>         \* 友
Hao == <<22909>>         \* 好
JiaYou == Jia \o You     \* 嘉友

\* code first: 分析(CODE)NAME, 帮我看看(CODE)NAME这只股票, ...这个股票
CodeFirstVocabulary == { Jia, GuPiao, ZheZhi, Space, FenXi }
CodeFirstBrackets ==
    { OpenH \o Code5 \o CloseH, OpenF \o Code6 \o CloseF, OpenH \o Code6 \o CloseF }
CodeFirstQueries ==
    { f[1] \o b \o n \o f[2] :
        f \in { <<FenXi, <<>>>>, <<BangWoKanKan, ZheZhiGuPiao>>, <<BangWoKanKan, ZheGeGuPiao>> },
        b \in CodeFirstBrackets,
        n \in TokenStrings(CodeFirstVocabulary, MaxCodeFirst) }

\* the names X of the single-field forms
FormNames == { JiaYou, Jia, JiaYou \o Jia }
\* text after a form: no digit, no parenthesis
TrailVocabulary == { Hao, FenXi, GuPiao, LiaoJieYiXia, Space }
Trails == TokenStrings(TrailVocabulary, MaxTrail)
\* the topics that are followed by a trailing text
TrailedTopics == { GuPiao, GuZhi }

\* possessive: X的T, every topic bare and two topics with a trailing text
PossessiveQueries ==
    { x \o De \o Topics[j] : x \in FormNames, j \in 1..Len(Topics) }
      \cup { x \o De \o t \o r : x \in FormNames, t \in TrailedTopics, r \in Trails }

\* stock keyword: P X 这只股票 and a trailing text
StockKeywordQueries ==
    { p \o x \o ZheZhiGuPiao \o r :
        p \in { <<>>, BangWoKanKan, WoXiangLiaoJieYiXia }, x \in FormNames, r \in Trails }

\* digit runs before the phrases of the code-only rules
CodePhraseQueries ==
    { a \o s \o d \o s \o w \o GuPiao \o z :
        a \in { <<>>, Code5 }, s \in { <<>>, Space }, d \in { Code6, Code5, Digits7 },
        w \in { <<>>, ZheGe }, z \in { <<>>, ZhiDeMai, ZuiJinBiaoXian } }

FormQueries ==
    CodeFirstQueries \cup PossessiveQueries \cup StockKeywordQueries \cup TestQueries

\* --- queries of the independent phase ------------------------------------

MaxPhase == 3            \* fragments of a query of the independent phase

\* trigger words of the name-only rules around a name
PhaseVocabulary == { FenXi, YiXia, De, GuPiao, Jia, Space }
PhaseQueries ==
    TokenStrings(PhaseVocabulary, MaxPhase) \cup CodePhraseQueries \cup TestQueries

\* --- queries whose name holds a stop-word split by another ----------------

MaxSplit == 4            \* fragments of a query with split stop-words

Yi  == <<19968>>         \* 一
Xia == <<19979>>         \* 下
\* 分析 as trigger and as stop-word, the halves of the stop-word 一下, 股票
SplitVocabulary == { Yi, Xia, FenXi, GuPiao }
SplitQueries == TokenStrings(SplitVocabulary, MaxSplit)

----------------------------------------------------------------------------
(* extract_stock_info(query) as a step machine *)

VARIABLES
    query,          \* the argument
    pc,             \* "combined", "name", "code", "cleanup" or "done"
    rule,           \* the rule whose re.search comes next
    company_name,   \* local company_name (None or a str)
    stock_code,     \* local stock_code (None or a str)
    tried           \* the rules evaluated so far, in order

vars == <<query, pc, rule, company_name, stock_code, tried>>

\* --- state of the MCP tools (a-share-mcp-is-just-i-need) ------------------

VARIABLES
    \* get_latest_trading_date (src/tools/date_utils.py)
    clock,          \* what datetime.now() gives when it is called next
    ticks,          \* how many times midnight has passed during the call
    calendar,       \* the exchange's calendar, as the data source knows it
    date_pc,        \* "idle", "today", "start", "end", "fetch", "scan", "done"
    today,          \* local today
    start_date,     \* local start_date
    end_date,       \* local end_date
    df,             \* the rows returned by get_trade_dates
    date_result,    \* the returned str (None before the return)
    \* a macroeconomic tool (src/tools/macroeconomic.py, src/tools/base.py)
    tool,           \* the tool called
    args,           \* its arguments start_date, end_date, year_type
    hierarchy,      \* the base class of NoDataFoundError and LoginError
    call_pc,        \* "idle", "tool", "call", "format", "done", "raised"
    kwargs,         \* the keyword arguments passed on to the data source method
    invoked,        \* the arguments bound by the data source method, if it ran
    frame,          \* the DataFrame returned by the data source method
    raised,         \* the exception raised inside safe_data_source_call
    call_result     \* the returned str (None before the return)

date_vars == <<clock, ticks, calendar, date_pc, today, start_date, end_date, df, date_result>>
call_vars == <<tool, args, hierarchy, call_pc, kwargs, invoked, frame, raised, call_result>>

\* --- the Baostock session helpers (a-share-mcp-is-just-i-need, src/utils.py)

VARIABLES
    baostock_lock,    \* _baostock_lock: the thread holding it, 0 when free
    logged_in,        \* whether the process's Baostock session is logged in
    fds,              \* the process's file descriptors: what each refers to
    entry,            \* per thread: the function the thread calls
    retries,          \* per thread: argument retries of safe_login
    delay,            \* per thread: argument delay of safe_login
    at,               \* per thread: where the thread is
    loop_i,           \* per thread: local i of safe_login
    saved_stdout_fd,  \* per thread: local saved_stdout_fd
    devnull_fd,       \* per thread: local devnull_fd
    exc,              \* per thread: the exception on its way out, or "none"
    calls             \* per thread: the calls made so far, in order

session_vars ==
    <<baostock_lock, logged_in, fds, entry, retries, delay, at, loop_i,
      saved_stdout_fd, devnull_fd, exc, calls>>
all_vars  == <<vars, date_vars, call_vars, session_vars>>

\* no thread uses the session helpers
SessionIdle ==
    /\ baostock_lock = 0 /\ logged_in = FALSE /\ fds = <<>> /\ entry = <<>>
    /\ retries = <<>> /\ delay = <<>> /\ at = <<>> /\ loop_i = <<>>
    /\ saved_stdout_fd = <<>> /\ devnull_fd = <<>> /\ exc = <<>> /\ calls = <<>>

\* no call of get_latest_trading_date is under way
DateIdle ==
    /\ clock = <<>> /\ ticks = 0 /\ calendar = <<>> /\ date_pc = "idle"
    /\ today = <<>> /\ start_date = <<>> /\ end_date = <<>> /\ df = <<>>
    /\ date_result = <<>>

\* no call of a macroeconomic tool is under way
CallIdle ==
    /\ tool = "" /\ args = <<>> /\ hierarchy = "" /\ call_pc = "idle"
    /\ kwargs = <<>> /\ invoked = <<>> /\ frame = <<>> /\ raised = <<>>
    /\ call_result = <<>>

\* no call of extract_stock_info is under way
ExtractIdle ==
    /\ query = <<>> /\ pc = "idle" /\ rule = 0 /\ company_name = <<>>
    /\ stock_code = <<>> /\ tried = <<>>

Init ==
    /\ query \in Queries
    /\ pc = "combined"
    /\ rule = 1
    /\ company_name = None
    /\ stock_code = None
    /\ tried = <<>>
    /\ DateIdle /\ CallIdle /\ SessionIdle

Matches(n, q) == re_search(Rules[n].re, q).ok
NameOf(n, q)  == strip(group(re_search(Rules[n].re, q), q, Rules[n].name))
CodeOf(n, q)  == group(re_search(Rules[n].re, q), q, Rules[n].code)

\* the rule evaluated after rule n when n did not return
NextRule(n) == n + 1

PcOf(n) ==
    IF n \in CombinedRules THEN "combined"
    ELSE IF n \in NameRules THEN "name"
    ELSE IF n \in CodeRules THEN "code"
    ELSE "cleanup"

\* variant: a combined rule whose match does not return
TryCombinedNoReturn ==
    /\ pc = "combined"
    /\ tried' = Append(tried, rule)
    /\ IF Matches(rule, query)
       THEN /\ company_name' = Some(NameOf(rule, query))
            /\ stock_code' = Some(CodeOf(rule, query))
       ELSE UNCHANGED <<company_name, stock_code>>
    /\ rule' = NextRule(rule)
    /\ pc' = PcOf(NextRule(rule))
    /\ UNCHANGED query
    /\ UNCHANGED <<date_vars, call_vars, session_vars>>

\* lines 15-77: a combined rule; a match returns at once
TryCombined ==
    /\ pc = "combined"
    /\ tried' = Append(tried, rule)
    /\ IF Matches(rule, query)
       THEN /\ company_name' = Some(NameOf(rule, query))
            /\ stock_code' = Some(CodeOf(rule, query))
            /\ pc' = "done"
            /\ UNCHANGED rule
       ELSE /\ rule' = NextRule(rule)
            /\ pc' = PcOf(NextRule(rule))
            /\ UNCHANGED <<company_name, stock_code>>
    /\ UNCHANGED query
    /\ UNCHANGED <<date_vars, call_vars, session_vars>>

\* variant: every single-field rule overwrites
OverwritesAll(n) == n \in 9..20

\* whether rule n may overwrite an already set value
Overwrites(n) == n = 9 \/ n = 18

\* lines 79-131: a name-only rule
TryName ==
    /\ pc = "name"
    /\ tried' = Append(tried, rule)
    /\ company_name' =
          IF Matches(rule, query) /\ (Overwrites(rule) \/ ~Truthy(company_name))
          THEN Some(NameOf(rule, query))
          ELSE company_name
    /\ rule' = NextRule(rule)
    /\ pc' = PcOf(NextRule(rule))
    /\ UNCHANGED <<query, stock_code>>
    /\ UNCHANGED <<date_vars, call_vars, session_vars>>

\* variant: a code-only rule that sets the code whenever it matches
TryCodeNoGuard ==
    /\ pc = "code"
    /\ tried' = Append(tried, rule)
    /\ stock_code' =
          IF Matches(rule, query) THEN Some(CodeOf(rule, query)) ELSE stock_code
    /\ rule' = NextRule(rule)
    /\ pc' = PcOf(NextRule(rule))
    /\ UNCHANGED <<query, company_name>>
    /\ UNCHANGED <<date_vars, call_vars, session_vars>>

\* lines 133-149: a code-only rule
TryCode ==
    /\ pc = "code"
    /\ tried' = Append(tried, rule)
    /\ stock_code' =
          IF Matches(rule, query) /\ (Overwrites(rule) \/ ~Truthy(stock_code))
          THEN Some(CodeOf(rule, query))
          ELSE stock_code
    /\ rule' = NextRule(rule)
    /\ pc' = PcOf(NextRule(rule))
    /\ UNCHANGED <<query, company_name>>
    /\ UNCHANGED <<date_vars, call_vars, session_vars>>

\* lines 151-162: the cleanup and the final return
Cleanup ==
    /\ pc = "cleanup"
    /\ company_name' = CleanName(company_name)
    /\ pc' = "done"
    /\ UNCHANGED <<query, rule, stock_code, tried>>
    /\ UNCHANGED <<date_vars, call_vars, session_vars>>

Next == TryCombined \/ TryName \/ TryCode \/ Cleanup

Spec == Init /\ [][Next]_vars

\* the same function called on the queries of the documented forms
InitForms ==
    /\ query \in FormQueries
    /\ pc = "combined"
    /\ rule = 1
    /\ company_name = None
    /\ stock_code = None
    /\ tried = <<>>
    /\ DateIdle /\ CallIdle /\ SessionIdle

SpecForms == InitForms /\ [][Next]_vars

\* the same function called on the queries of the independent phase
InitPhase ==
    /\ query \in PhaseQueries
    /\ pc = "combined"
    /\ rule = 1
    /\ company_name = None
    /\ stock_code = None
    /\ tried = <<>>
    /\ DateIdle /\ CallIdle /\ SessionIdle

SpecPhase == InitPhase /\ [][Next]_vars

\* the same function called on the queries with split stop-words
InitSplit ==
    /\ query \in SplitQueries
    /\ pc = "combined"
    /\ rule = 1
    /\ company_name = None
    /\ stock_code = None
    /\ tried = <<>>
    /\ DateIdle /\ CallIdle /\ SessionIdle

SpecSplit == InitSplit /\ [][Next]_vars

\* the returned pair, once the call has returned
Returned == pc = "done"

----------------------------------------------------------------------------
(* Vocabulary of the properties *)

IsAsciiDigits(s) == \A i \in 1..Len(s) : s[i] \in 48..57
HasParen(s)  == \E i \in 1..Len(s) : s[i] \in {40, 41, 65288, 65289}
HasDigit(s)  == \E i \in 1..Len(s) : s[i] \in 48..57 \/ s[i] \in 65296..65305

\* the lowest-numbered combined rule that matches q (0: none)
FirstCombined(q) ==
    IF \E n \in 1..8 : Matches(n, q)
    THEN CHOOSE n \in 1..8 : Matches(n, q) /\ \A k \in 1..(n - 1) : ~Matches(k, q)
    ELSE 0

\* q is 分析 NAME ( CODE ) with a CODE of L digits, either width of each
\* parenthesis, and a NAME without parentheses that is not blank
IsAnalyzeForm(q, L) ==
    /\ Len(q) >= L + 5
    /\ SubSeq(q, 1, 2) = <<20998, 26512>>
    /\ q[Len(q)] \in {41, 65289}
    /\ q[Len(q) - L - 1] \in {40, 65288}
    /\ IsAsciiDigits(SubSeq(q, Len(q) - L, Len(q) - 1))
    /\ ~HasParen(SubSeq(q, 3, Len(q) - L - 2))
    /\ strip(SubSeq(q, 3, Len(q) - L - 2)) # <<>>
NamePart(q, L) == SubSeq(q, 3, Len(q) - L - 2)
CodePart(q, L) == SubSeq(q, Len(q) - L, Len(q) - 1)

\* in s, some 分析一下 is followed by one more character
YiXiaFollowed(s) ==
    \E i \in 1..Len(s) : i + 4 <= Len(s) /\ SubSeq(s, i, i + 3) = <<20998, 26512, 19968, 19979>>

\* the trigger keywords of the rules
Triggers ==
    { <<20998, 26512>>,                       \* 分析
      <<32929, 31080>>,                       \* 股票
      <<20102, 35299, 19968, 19979>>,         \* 了解一下
      <<24110, 25105, 30475, 30475>>,         \* 帮我看看
      <<30340>>, <<22312>>,                   \* 的 在
      <<38754, 20020>> }                      \* 面临

----------------------------------------------------------------------------
(* Properties *)

\* C1: the combined rules are tried in the order 1..8; when one of them
\* matches, the call returns at once with the (trimmed name, code) captured by
\* the lowest-numbered matching rule, and no rule after it is evaluated.
C1_FirstCombinedWins ==
    /\ \A j \in 1..Len(tried) : tried[j] = j
    /\ (pc = "done" /\ FirstCombined(query) # 0) =>
          LET n == FirstCombined(query)
          IN  /\ company_name = Some(NameOf(n, query))
              /\ stock_code = Some(CodeOf(n, query))
              /\ Len(tried) = n

\* a call has returned on rule 2 although rules 3 and 8 match with another
\* name and the code-only rule 18 matches too
C1_Witness ==
    /\ pc = "done"
    /\ FirstCombined(query) = 2
    /\ Matches(3, query) /\ NameOf(3, query) # NameOf(2, query)
    /\ Matches(8, query) /\ NameOf(8, query) # NameOf(2, query)
    /\ Matches(18, query)

\* C2: a returned company_name that is not None has at least 2 characters.
C2_NameAtLeastTwo ==
    (pc = "done" /\ company_name.some) => Len(company_name.v) >= 2

\* C3: a returned company_name that is not None contains no stop-word.
C3_NoStopWordLeft ==
    (pc = "done" /\ company_name.some) =>
        \A j \in 1..Len(stop_words) : ~contains(company_name.v, stop_words[j])

\* C4: a stock_code that is not None is a string of 5 or 6 decimal digits.
C4_CodeFiveOrSixDigits ==
    stock_code.some =>
        /\ Len(stock_code.v) \in {5, 6}
        /\ \A i \in 1..Len(stock_code.v) :
              stock_code.v[i] \in 48..57 \/ stock_code.v[i] \in 65296..65305

\* a returned code of 6 digits that rule 18 did not find (no word boundary
\* around it) and a later code-only rule did
C4_Witness ==
    /\ pc = "done"
    /\ stock_code.some
    /\ Len(stock_code.v) = 6
    /\ ~Matches(18, query)
    /\ Len(tried) = 20

\* C5: every call returns, and each returned field is None or a non-empty
\* string.
C5_NeverEmptyString ==
    pc = "done" =>
        /\ company_name.some => company_name.v # <<>>
        /\ stock_code.some => stock_code.v # <<>>

\* C6 as stated: every query 分析 NAME ( CODE ) returns (NAME trimmed, CODE).
C6_AnalyzeFormAsStated ==
    \A L \in {5, 6} :
        (pc = "done" /\ IsAnalyzeForm(query, L)) =>
            /\ company_name = Some(strip(NamePart(query, L)))
            /\ stock_code = Some(CodePart(query, L))

\* C6 amended: every query 分析 NAME ( CODE ) in which no 分析一下 is followed
\* by a further character of NAME returns (NAME trimmed, CODE).
C6_AnalyzeForm ==
    \A L \in {5, 6} :
        (/\ pc = "done"
         /\ IsAnalyzeForm(query, L)
         /\ ~YiXiaFollowed(SubSeq(query, 1, Len(query) - L - 2))) =>
            /\ company_name = Some(strip(NamePart(query, L)))
            /\ stock_code = Some(CodePart(query, L))

\* such a query with spaces on both sides of NAME, a full-width closing
\* parenthesis, and a NAME that ends in 分析一下
C6_Witness ==
    /\ pc = "done"
    /\ IsAnalyzeForm(query, 5)
    /\ ~YiXiaFollowed(SubSeq(query, 1, Len(query) - 7))
    /\ NamePart(query, 5)[1] = 32
    /\ query[Len(query) - 7] = 32
    /\ query[Len(query)] = 65289
    /\ contains(query, <<19968, 19979>>)
    /\ company_name = Some(strip(NamePart(query, 5)))

\* C7: a query of only 5 or 6 digits returns (None, the query).
C7_DigitsOnly ==
    (pc = "done" /\ Len(query) \in {5, 6} /\ IsAsciiDigits(query)) =>
        /\ company_name = None
        /\ stock_code = Some(query)

C7_Witness ==
    /\ pc = "done"
    /\ Len(query) = 5
    /\ IsAsciiDigits(query)
    /\ stock_code = Some(query)

\* C8: a query with no digit and none of the trigger keywords returns
\* (None, None).
C8_NoTriggerNoResult ==
    (/\ pc = "done"
     /\ ~HasDigit(query)
     /\ \A w \in Triggers : ~contains(query, w)) =>
        /\ company_name = None
        /\ stock_code = None

\* such a query made of pieces of keywords and a parenthesis has gone through
\* all twenty rules
C8_Witness ==
    /\ pc = "done"
    /\ ~HasDigit(query)
    /\ \A w \in Triggers : ~contains(query, w)
    /\ contains(query, <<19968, 19979>>)
    /\ contains(query, <<20102, 35299>>)
    /\ HasParen(query)
    /\ Len(tried) = 20
    /\ company_name = None /\ stock_code = None

\* C10: 分析 followed by a bare 6-digit number returns (None, None).
C10_AnalyzeBareNumber ==
    (/\ pc = "done"
     /\ Len(query) = 8
     /\ SubSeq(query, 1, 2) = <<20998, 26512>>
     /\ IsAsciiDigits(SubSeq(query, 3, 8))) =>
        /\ company_name = None
        /\ stock_code = None

C10_Witness ==
    /\ pc = "done"
    /\ Len(query) = 8
    /\ SubSeq(query, 1, 2) = <<20998, 26512>>
    /\ IsAsciiDigits(SubSeq(query, 3, 8))
    /\ Len(tried) = 20
    /\ stock_code = None

----------------------------------------------------------------------------
(* Code before name *)

\* q is 分析 ( CODE ) NAME: CODE of L digits, either width of each
\* parenthesis, NAME not empty and without parentheses
IsCodeFirstAnalyze(q, L) ==
    /\ Len(q) >= L + 5
    /\ SubSeq(q, 1, 2) = <<20998, 26512>>
    /\ q[3] \in {40, 65288}
    /\ IsAsciiDigits(SubSeq(q, 4, L + 3))
    /\ q[L + 4] \in {41, 65289}
    /\ ~HasParen(SubSeq(q, L + 5, Len(q)))
AnalyzeName(q, L) == SubSeq(q, L + 5, Len(q))
AnalyzeCode(q, L) == SubSeq(q, 4, L + 3)

\* q is 帮我看看 ( CODE ) NAME 这只股票 or ... NAME 这个股票
IsCodeFirstLook(q, L) ==
    /\ Len(q) >= L + 11
    /\ SubSeq(q, 1, 4) = <<24110, 25105, 30475, 30475>>
    /\ q[5] \in {40, 65288}
    /\ IsAsciiDigits(SubSeq(q, 6, L + 5))
    /\ q[L + 6] \in {41, 65289}
    /\ ~HasParen(SubSeq(q, L + 7, Len(q) - 4))
    /\ SubSeq(q, Len(q) - 3, Len(q)) \in
          { <<36825, 21482, 32929, 31080>>, <<36825, 20010, 32929, 31080>> }
LookName(q, L) == SubSeq(q, L + 7, Len(q) - 4)
LookCode(q, L) == SubSeq(q, 6, L + 5)

\* 股票 begins in s after the first character of s
StockWordInside(s) ==
    \E i \in 2..(Len(s) - 1) : SubSeq(s, i, i + 1) = <<32929, 31080>>

\* C11 as stated: 分析(CODE)NAME returns (NAME, CODE), and
\* 帮我看看(CODE)NAME这只股票 / ...这个股票 returns (NAME, CODE), for every
\* CODE of 5 or 6 digits and every non-empty NAME without parentheses.
C11_CodeFirstAsStated ==
    Returned =>
      \A L \in {5, 6} :
         /\ IsCodeFirstAnalyze(query, L) =>
               /\ company_name = Some(AnalyzeName(query, L))
               /\ stock_code = Some(AnalyzeCode(query, L))
         /\ IsCodeFirstLook(query, L) =>
               /\ company_name = Some(LookName(query, L))
               /\ stock_code = Some(LookCode(query, L))

\* C11 (amended): 分析(CODE)NAME returns (NAME with the surrounding
\* whitespace trimmed, CODE); 帮我看看(CODE)NAME这只股票 / ...这个股票 returns
\* the same pair when NAME is not blank and 股票 does not begin inside
\* NAME after NAME's first character.
C11_CodeFirst ==
    Returned =>
      \A L \in {5, 6} :
         /\ IsCodeFirstAnalyze(query, L) =>
               /\ company_name = Some(strip(AnalyzeName(query, L)))
               /\ stock_code = Some(AnalyzeCode(query, L))
         /\ (/\ IsCodeFirstLook(query, L)
             /\ strip(LookName(query, L)) # <<>>
             /\ ~StockWordInside(LookName(query, L))) =>
               /\ company_name = Some(strip(LookName(query, L)))
               /\ stock_code = Some(LookCode(query, L))

\* 帮我看看（603871）NAME这只股票 has returned, NAME of several characters
\* with a blank at one end, and the name is NAME trimmed
C11_Witness ==
    /\ Returned
    /\ IsCodeFirstLook(query, 6)
    /\ ~StockWordInside(LookName(query, 6))
    /\ Len(strip(LookName(query, 6))) >= 2
    /\ strip(LookName(query, 6)) # LookName(query, 6)
    /\ company_name = Some(strip(LookName(query, 6)))
    /\ stock_code = Some(<<54, 48, 51, 56, 55, 49>>)

----------------------------------------------------------------------------
(* Possessive form and stock-keyword form *)

\* a name of the single-field forms: at least 2 characters, no digit, no
\* parenthesis, no whitespace, no stop-word, no trigger keyword
GoodName(x) ==
    /\ Len(x) >= 2
    /\ ~HasDigit(x)
    /\ ~HasParen(x)
    /\ \A i \in 1..Len(x) : ~IsSpace(x[i])
    /\ \A w \in Triggers : ~contains(x, w)
    /\ \A j \in 1..Len(stop_words) : ~contains(x, stop_words[j])

\* a trailing text as the claims allow it
PlainTrail(r) == ~HasDigit(r) /\ ~HasParen(r)

\* 分析 occurs in r only as the last two characters
AnalyzeOnlyLast(r) ==
    \A i \in 1..(Len(r) - 2) : SubSeq(r, i, i + 1) # <<20998, 26512>>

\* q is X 的 T R with X the first n characters and T the j-th topic
IsPossessive(q, n, j) ==
    /\ Len(q) >= n + 1 + Len(Topics[j])
    /\ GoodName(SubSeq(q, 1, n))
    /\ q[n + 1] = 30340
    /\ SubSeq(q, n + 2, n + 1 + Len(Topics[j])) = Topics[j]
    /\ PlainTrail(SubSeq(q, n + 2 + Len(Topics[j]), Len(q)))
PossessiveTrail(q, n, j) == SubSeq(q, n + 2 + Len(Topics[j]), Len(q))

\* C12 as stated: X的T, followed or not by a text without digits and
\* parentheses, returns (X, None), for every name X and each of the topics T.
C12_PossessiveAsStated ==
    Returned =>
      \A n \in 2..Len(query), j \in 1..Len(Topics) :
         IsPossessive(query, n, j) =>
            /\ company_name = Some(SubSeq(query, 1, n))
            /\ stock_code = None

\* C12 (amended): X的T followed or not by a text without digits and
\* parentheses returns (X, None) when that text has no 股票, no 了解一下, and
\* 分析 at most as its last two characters.
C12_Possessive ==
    Returned =>
      \A n \in 2..Len(query), j \in 1..Len(Topics) :
         (/\ IsPossessive(query, n, j)
          /\ ~contains(PossessiveTrail(query, n, j), <<32929, 31080>>)
          /\ ~contains(PossessiveTrail(query, n, j), <<20102, 35299, 19968, 19979>>)
          /\ AnalyzeOnlyLast(PossessiveTrail(query, n, j))) =>
            /\ company_name = Some(SubSeq(query, 1, n))
            /\ stock_code = None

\* 嘉友的T R has returned (嘉友, None), T other than 股票 and R ending in 分析
C12_Witness ==
    /\ Returned
    /\ Len(tried) = 20
    /\ \E j \in 1..Len(Topics) :
          /\ IsPossessive(query, 2, j)
          /\ Topics[j] # <<32929, 31080>>
          /\ Len(PossessiveTrail(query, 2, j)) >= 3
          /\ AnalyzeOnlyLast(PossessiveTrail(query, 2, j))
          /\ contains(PossessiveTrail(query, 2, j), <<20998, 26512>>)
          /\ ~contains(PossessiveTrail(query, 2, j), <<32929, 31080>>)
    /\ company_name = Some(<<22025, 21451>>)
    /\ stock_code = None

\* the verb prefixes of the stock-keyword form: none, 帮我看看, 我想了解一下
KeywordPrefixes ==
    { <<>>, <<24110, 25105, 30475, 30475>>,
      <<25105, 24819, 20102, 35299, 19968, 19979>> }

\* q is P X 这只股票 R with X the n characters after P
IsStockKeyword(q, p, n) ==
    /\ Len(q) >= Len(p) + n + 4
    /\ SubSeq(q, 1, Len(p)) = p
    /\ GoodName(SubSeq(q, Len(p) + 1, Len(p) + n))
    /\ SubSeq(q, Len(p) + n + 1, Len(p) + n + 4) = <<36825, 21482, 32929, 31080>>
    /\ PlainTrail(SubSeq(q, Len(p) + n + 5, Len(q)))
KeywordName(q, p, n)  == SubSeq(q, Len(p) + 1, Len(p) + n)
KeywordTrail(q, p, n) == SubSeq(q, Len(p) + n + 5, Len(q))

\* C13 as stated: P X 这只股票, followed or not by a text without digits and
\* parentheses, returns (X, None) for P empty, 帮我看看 or 我想了解一下.
C13_StockKeywordAsStated ==
    Returned =>
      \A p \in KeywordPrefixes, n \in 2..Len(query) :
         IsStockKeyword(query, p, n) =>
            /\ company_name = Some(KeywordName(query, p, n))
            /\ stock_code = None

\* C13 (amended): P X 这只股票 followed or not by a text without digits and
\* parentheses returns (X, None) when that text has no 股票 and has 分析 at
\* most as its last two characters.
C13_StockKeyword ==
    Returned =>
      \A p \in KeywordPrefixes, n \in 2..Len(query) :
         (/\ IsStockKeyword(query, p, n)
          /\ ~contains(KeywordTrail(query, p, n), <<32929, 31080>>)
          /\ AnalyzeOnlyLast(KeywordTrail(query, p, n))) =>
            /\ company_name = Some(KeywordName(query, p, n))
            /\ stock_code = None

\* 我想了解一下嘉友这只股票 R, R not empty, has returned (嘉友, None)
C13_Witness ==
    /\ Returned
    /\ Len(tried) = 20
    /\ IsStockKeyword(query, <<25105, 24819, 20102, 35299, 19968, 19979>>, 2)
    /\ Len(query) >= 14
    /\ ~contains(KeywordTrail(query, <<25105, 24819, 20102, 35299, 19968, 19979>>, 2),
                 <<32929, 31080>>)
    /\ company_name = Some(<<22025, 21451>>)
    /\ stock_code = None

----------------------------------------------------------------------------
(* The independent phase *)

\* the capture of the lowest-numbered rule of lo..hi that matches q, as the
\* name (name = TRUE) or as the code; None when no rule of lo..hi matches
FirstCapture(q, lo, hi, name) ==
    IF \E n \in lo..hi : Matches(n, q)
    THEN LET n == CHOOSE n \in lo..hi :
                     Matches(n, q) /\ \A k \in lo..(n - 1) : ~Matches(k, q)
         IN  Some(IF name THEN NameOf(n, q) ELSE CodeOf(n, q))
    ELSE None

\* C18: once no combined rule has matched, company_name is at every step the
\* capture of the first name-only rule, in the order 9..17, among the rules
\* evaluated so far; so a later match never replaces an earlier one and the
\* cleanup receives the capture of the first matching name-only rule.
C18_FirstNameRuleWins ==
    /\ pc = "name" => company_name = FirstCapture(query, 9, rule - 1, TRUE)
    /\ pc \in {"code", "cleanup"} => company_name = FirstCapture(query, 9, 17, TRUE)

\* the cleanup is about to receive the capture of rule 11 although rule 12
\* matches too, with another capture
C18_Witness ==
    /\ pc = "cleanup"
    /\ ~Matches(9, query) /\ ~Matches(10, query)
    /\ Matches(11, query) /\ Matches(12, query)
    /\ NameOf(11, query) # NameOf(12, query)
    /\ company_name = Some(NameOf(11, query))

\* C19: a call that went through the independent phase returns as stock_code
\* the capture of the first code-only rule, in the order 18, 19, 20, that
\* matches, and None when none matches, whatever the name.
C19_FirstCodeRuleWins ==
    /\ pc = "code" => stock_code = FirstCapture(query, 18, rule - 1, FALSE)
    /\ pc \in {"cleanup", "done"} /\ Len(tried) = 20 =>
          stock_code = FirstCapture(query, 18, 20, FALSE)

\* CODE股票值得买 has returned: rule 18 finds no token, rule 19 gives 603871
C19_Witness ==
    /\ Returned
    /\ Len(tried) = 20
    /\ ~Matches(18, query)
    /\ Matches(19, query)
    /\ contains(query, <<20540, 24471, 20080>>)
    /\ stock_code = Some(<<54, 48, 51, 56, 55, 49>>)

\* C20: a call that went through the independent phase and whose captured
\* name has fewer than 2 characters after stop-word removal and trimming
\* returns company_name None; 分析, 分析一下 and 帮我看看 return (None, None).
C20_ShortNameDropped ==
    Returned /\ Len(tried) = 20 =>
      /\ LET c == FirstCapture(query, 9, 17, TRUE)
         IN  c.some /\ Len(RemoveStopWords(c.v, 1)) < 2 => company_name = None
      /\ query \in { <<20998, 26512>>, <<20998, 26512, 19968, 19979>>,
                     <<24110, 25105, 30475, 30475>> } =>
            company_name = None /\ stock_code = None

\* a call has returned None for a capture that the cleanup left with exactly
\* one character
C20_Witness ==
    /\ Returned
    /\ Len(tried) = 20
    /\ LET c == FirstCapture(query, 9, 17, TRUE)
       IN  c.some /\ Len(RemoveStopWords(c.v, 1)) = 1
    /\ company_name = None

----------------------------------------------------------------------------
(* get_latest_trading_date (src/tools/date_utils.py, lines 37-77)          *)
(*                                                                         *)
(* A date is <<month, day>> in a window of three months of one year: 1 the *)
(* month before the call, 2 the month of the call, 3 the month after.  A   *)
(* '%Y-%m-%d' string is the tuple of the decimal digits of month and day   *)
(* (the year is the same in all of them); str comparison is lexicographic. *)

MaxTicks == 1            \* times midnight passes during one call
MaxHoliday == 3          \* days of the longest holiday at the start of month 2

DaysIn(m) == IF m = 2 THEN 31 ELSE 30
Dates == { dt \in (1..3) \X (1..31) : dt[2] <= DaysIn(dt[1]) }

\* date + timedelta(days=1)
NextDay(dt) == IF dt[2] < DaysIn(dt[1]) THEN <<dt[1], dt[2] + 1>> ELSE <<dt[1] + 1, 1>>

\* days from <<1, 1>> to dt
Ordinal(dt) == (IF dt[1] > 1 THEN DaysIn(1) ELSE 0) + (IF dt[1] > 2 THEN DaysIn(2) ELSE 0) + dt[2] - 1

\* datetime.replace(day=k)
replace_day(dt, k) == <<dt[1], k>>

\* datetime.strftime("%Y-%m-%d"): zero-padded fields
strftime(dt) == << dt[1] \div 10, dt[1] % 10, dt[2] \div 10, dt[2] % 10 >>

\* the date a '%Y-%m-%d' string names
strptime(t) == << t[1] * 10 + t[2], t[3] * 10 + t[4] >>

\* str < str
RECURSIVE StrLess(_, _)
StrLess(a, b) ==
    IF b = <<>> THEN FALSE
    ELSE IF a = <<>> THEN TRUE
    ELSE IF Head(a) # Head(b) THEN Head(a) < Head(b)
    ELSE StrLess(Tail(a), Tail(b))

\* str <= str
StrLeq(a, b) == a = b \/ StrLess(a, b)

\* the exchange is open on dt: a weekday (0 = Monday) outside the holiday
IsTradingDay(cal, dt) ==
    /\ (cal.first_weekday + Ordinal(dt)) % 7 < 5
    /\ ~(dt[1] = 2 /\ dt[2] <= cal.holiday)

\* the rows of query_trade_dates: one per calendar day from dt to end_str
RECURSIVE TradeRows(_, _, _)
TradeRows(cal, dt, end_str) ==
    IF dt \notin Dates \/ StrLess(end_str, strftime(dt)) THEN <<>>
    ELSE << [calendar_date |-> strftime(dt),
             is_trading_day |-> IF IsTradingDay(cal, dt) THEN "1" ELSE "0"] >>
            \o TradeRows(cal, NextDay(dt), end_str)

\* BaostockDataSource.get_trade_dates(start_date, end_date), when it succeeds
get_trade_dates(cal, start_str, end_str) == TradeRows(cal, strptime(start_str), end_str)

\* df[df['is_trading_day'] == '1']['calendar_date'].tolist()
RECURSIVE ValidTradingDays(_)
ValidTradingDays(rows) ==
    IF rows = <<>> THEN <<>>
    ELSE (IF Head(rows).is_trading_day = "1" THEN <<Head(rows).calendar_date>> ELSE <<>>)
            \o ValidTradingDays(Tail(rows))

\* variant: the loop with date < today
RECURSIVE LatestLoopStrict(_, _, _)
LatestLoopStrict(days, t, latest) ==
    IF days = <<>> THEN latest
    ELSE LatestLoopStrict(Tail(days), t,
            IF StrLess(Head(days), t) /\ (~latest.some \/ StrLess(latest.v, Head(days)))
            THEN Some(Head(days)) ELSE latest)

\* lines 61-64: the loop over valid_trading_days
RECURSIVE LatestLoop(_, _, _)
LatestLoop(days, t, latest) ==
    IF days = <<>> THEN latest
    ELSE LatestLoop(Tail(days), t,
            IF StrLeq(Head(days), t) /\ (~latest.some \/ StrLess(latest.v, Head(days)))
            THEN Some(Head(days)) ELSE latest)

InitDate ==
    /\ ExtractIdle /\ CallIdle /\ SessionIdle
    /\ clock \in { dt \in Dates : dt[1] = 2 }
    /\ ticks = 0
    /\ calendar \in [first_weekday : 0..6, holiday : 0..MaxHoliday]
    /\ date_pc = "today"
    /\ today = <<>> /\ start_date = <<>> /\ end_date = <<>> /\ df = <<>>
    /\ date_result = None

\* midnight passes between two statements
Tick ==
    /\ date_pc \in {"today", "start", "end", "fetch", "scan"}
    /\ ticks < MaxTicks
    /\ clock' = NextDay(clock)
    /\ ticks' = ticks + 1
    /\ UNCHANGED <<calendar, date_pc, today, start_date, end_date, df, date_result>>
    /\ UNCHANGED <<vars, call_vars, session_vars>>

\* line 48
ReadToday ==
    /\ date_pc = "today"
    /\ today' = strftime(clock)
    /\ date_pc' = "start"
    /\ UNCHANGED <<clock, ticks, calendar, start_date, end_date, df, date_result>>
    /\ UNCHANGED <<vars, call_vars, session_vars>>

\* line 50
ReadStart ==
    /\ date_pc = "start"
    /\ start_date' = strftime(replace_day(clock, 1))
    /\ date_pc' = "end"
    /\ UNCHANGED <<clock, ticks, calendar, today, end_date, df, date_result>>
    /\ UNCHANGED <<vars, call_vars, session_vars>>

\* line 51
ReadEnd ==
    /\ date_pc = "end"
    /\ end_date' = strftime(replace_day(clock, 28))
    /\ date_pc' = "fetch"
    /\ UNCHANGED <<clock, ticks, calendar, today, start_date, df, date_result>>
    /\ UNCHANGED <<vars, call_vars, session_vars>>

\* lines 53-54: the data source returns the rows of the window
FetchRows ==
    /\ date_pc = "fetch"
    /\ get_trade_dates(calendar, start_date, end_date) # <<>>
    /\ df' = get_trade_dates(calendar, start_date, end_date)
    /\ date_pc' = "scan"
    /\ UNCHANGED <<clock, ticks, calendar, today, start_date, end_date, date_result>>
    /\ UNCHANGED <<vars, call_vars, session_vars>>

\* lines 53-54 and 75-77: the data source raises; the handler returns now()
FetchFails ==
    /\ date_pc = "fetch"
    /\ date_result' = Some(strftime(clock))
    /\ date_pc' = "done"
    /\ UNCHANGED <<clock, ticks, calendar, today, start_date, end_date, df>>
    /\ UNCHANGED <<vars, call_vars, session_vars>>

\* lines 56-73: filter, loop and return
Scan ==
    /\ date_pc = "scan"
    /\ LET latest_trading_date == LatestLoop(ValidTradingDays(df), today, None)
       IN  date_result' = IF Truthy(latest_trading_date) THEN latest_trading_date
                          ELSE Some(today)
    /\ date_pc' = "done"
    /\ UNCHANGED <<clock, ticks, calendar, today, start_date, end_date, df>>
    /\ UNCHANGED <<vars, call_vars, session_vars>>

NextDate == Tick \/ ReadToday \/ ReadStart \/ ReadEnd \/ FetchRows \/ FetchFails \/ Scan

SpecDate == InitDate /\ [][NextDate]_all_vars

\* the call has returned after the data source gave its rows
DateReturned == date_pc = "done" /\ df # <<>>

\* the rows returned by the data source list t as a trading day
ListedAsTrading(rows, t) ==
    \E i \in 1..Len(rows) : rows[i].calendar_date = t /\ rows[i].is_trading_day = "1"

\* the last trading day of the exchange before the date t names
LastTradingDayBefore(cal, t) ==
    CHOOSE dt \in Dates :
        /\ IsTradingDay(cal, dt)
        /\ Ordinal(dt) < Ordinal(strptime(t))
        /\ \A o \in Dates :
              IsTradingDay(cal, o) /\ Ordinal(o) < Ordinal(strptime(t)) =>
                 Ordinal(o) <= Ordinal(dt)

C15_ReturnsLastTradingDay ==
    DateReturned /\ ~IsTradingDay(calendar, strptime(today)) =>
        date_result = Some(strftime(LastTradingDayBefore(calendar, today)))

----------------------------------------------------------------------------
(* The macroeconomic tools (src/tools/macroeconomic.py) and                *)
(* safe_data_source_call (src/tools/base.py, lines 15-54)                  *)
(*                                                                         *)
(* A message is the sequence of its words, so that an f-string is a        *)
(* concatenation and str.startswith compares the first word.               *)

MacroTools ==
    { "get_deposit_rate_data", "get_loan_rate_data", "get_required_reserve_ratio_data",
      "get_money_supply_data_month", "get_money_supply_data_year" }

\* the arguments a client may pass
DateArgs == { None, Some("2015-01-01"), Some("2015-12-31") }
YearTypes == { "0", "1", "2", "" }

\* the parameter names of the BaostockDataSource method behind tool t
MethodParams(t) ==
    IF t = "get_required_reserve_ratio_data"
    THEN { "start_date", "end_date", "year_type" }
    ELSE { "start_date", "end_date" }

\* the keyword arguments that reach data_source_method(**kwargs) from tool t
ToolKwargs(t, a) ==
    IF t = "get_required_reserve_ratio_data"
    THEN [start_date |-> a.start_date, end_date |-> a.end_date, yearType |-> a.year_type]
    ELSE [start_date |-> a.start_date, end_date |-> a.end_date]

\* line 79 of macroeconomic.py
InvalidYearType(y) ==
    << "Error:", "Invalid", "year_type", y, "Valid", "options", "are", "'0'",
       "(announcement", "date)", "or", "'1'", "(effective", "date)." >>

\* what a call can raise, and the texts of str(e)
Raisable ==
    { "NoDataFoundError", "LoginError", "DataSourceError", "ValueError",
      "TypeError", "KeyError", "KeyboardInterrupt", "SystemExit" }
Messages == { <<>>, <<"No", "data", "found.">> }
NoException == [kind |-> "", msg |-> <<>>]

\* TypeError of a call with a keyword the callee does not have
UnexpectedKeyword(names) ==
    [kind |-> "TypeError",
     msg  |-> <<"got", "an", "unexpected", "keyword", "argument">>
                 \o <<CHOOSE n \in names : TRUE>>]

\* DataFrames a data source method returns
Frames == { <<"row">>, <<"row", "row">> }

\* format_df_to_markdown: a table, one line per row under the header
format_df_to_markdown(f) == <<"|", "date", "|", "value", "|">> \o f

\* base classes of the exceptions of src.data_source_interface
CustomBase(h, kind) == IF kind = "DataSourceError" THEN "Exception" ELSE h

\* base classes of the built-in exceptions
BuiltinBase(kind) ==
    IF kind \in {"ValueError", "TypeError", "KeyError"} THEN "Exception"
    ELSE "BaseException"

BaseOf(h, kind) ==
    IF kind \in {"NoDataFoundError", "LoginError", "DataSourceError"}
    THEN CustomBase(h, kind) ELSE BuiltinBase(kind)

\* isinstance(e, cls) for an e of class kind
RECURSIVE IsInstance(_, _, _)
IsInstance(h, kind, cls) ==
    \/ kind = cls
    \/ kind # "BaseException" /\ IsInstance(h, BaseOf(h, kind), cls)

\* variant: the DataSourceError clause first
ExceptClausesBaseFirst ==
    << [cls |-> "DataSourceError",
        prefix |-> <<"Error:", "An", "error", "occurred", "while", "fetching", "data.">>],
       [cls |-> "NoDataFoundError", prefix |-> <<"Error:">>],
       [cls |-> "LoginError",
        prefix |-> <<"Error:", "Could", "not", "connect", "to", "data", "source.">>],
       [cls |-> "ValueError", prefix |-> <<"Error:", "Invalid", "input", "parameter.">>],
       [cls |-> "Exception",
        prefix |-> <<"Error:", "An", "unexpected", "error", "occurred:">>] >>

\* lines 40-54 of base.py: the except clauses, in order
ExceptClauses ==
    << [cls |-> "NoDataFoundError", prefix |-> <<"Error:">>],
       [cls |-> "LoginError",
        prefix |-> <<"Error:", "Could", "not", "connect", "to", "data", "source.">>],
       [cls |-> "DataSourceError",
        prefix |-> <<"Error:", "An", "error", "occurred", "while", "fetching", "data.">>],
       [cls |-> "ValueError", prefix |-> <<"Error:", "Invalid", "input", "parameter.">>],
       [cls |-> "Exception",
        prefix |-> <<"Error:", "An", "unexpected", "error", "occurred:">>] >>

\* the first except clause that catches an exception of class kind (0: none)
Handler(h, kind) ==
    IF \E i \in 1..Len(ExceptClauses) : IsInstance(h, kind, ExceptClauses[i].cls)
    THEN CHOOSE i \in 1..Len(ExceptClauses) :
            /\ IsInstance(h, kind, ExceptClauses[i].cls)
            /\ \A j \in 1..(i - 1) : ~IsInstance(h, kind, ExceptClauses[j].cls)
    ELSE 0

\* exception e is raised inside the try block of safe_data_source_call
Handle(e) ==
    /\ raised' = e
    /\ IF Handler(hierarchy, e.kind) = 0
       THEN call_pc' = "raised" /\ UNCHANGED call_result
       ELSE /\ call_result' = Some(ExceptClauses[Handler(hierarchy, e.kind)].prefix \o e.msg)
            /\ call_pc' = "done"

InitCall ==
    /\ ExtractIdle /\ DateIdle /\ SessionIdle
    /\ tool \in MacroTools
    /\ args \in [start_date : DateArgs, end_date : DateArgs, year_type : YearTypes]
    /\ tool # "get_required_reserve_ratio_data" => args.year_type = "0"
    /\ hierarchy \in {"Exception", "DataSourceError"}
    /\ call_pc = "tool"
    /\ kwargs = <<>> /\ invoked = None /\ frame = <<>>
    /\ raised = NoException
    /\ call_result = None

\* the tool function up to the try block of safe_data_source_call
CallTool ==
    /\ call_pc = "tool"
    /\ IF tool = "get_required_reserve_ratio_data" /\ args.year_type \notin {"0", "1"}
       THEN /\ call_result' = Some(InvalidYearType(args.year_type))
            /\ call_pc' = "done"
            /\ UNCHANGED kwargs
       ELSE /\ kwargs' = ToolKwargs(tool, args)
            /\ call_pc' = "call"
            /\ UNCHANGED call_result
    /\ UNCHANGED <<tool, args, hierarchy, invoked, frame, raised>>
    /\ UNCHANGED <<vars, date_vars, session_vars>>

\* line 36: the keywords do not fit the method's parameters
InvokeFails ==
    /\ call_pc = "call"
    /\ ~(DOMAIN kwargs \subseteq MethodParams(tool))
    /\ Handle(UnexpectedKeyword(DOMAIN kwargs \ MethodParams(tool)))
    /\ UNCHANGED <<tool, args, hierarchy, kwargs, invoked, frame>>
    /\ UNCHANGED <<vars, date_vars, session_vars>>

\* line 36: the method runs and returns a DataFrame
MethodReturns ==
    /\ call_pc = "call"
    /\ DOMAIN kwargs \subseteq MethodParams(tool)
    /\ invoked' = Some(kwargs)
    /\ frame' \in Frames
    /\ call_pc' = "format"
    /\ UNCHANGED <<tool, args, hierarchy, kwargs, raised, call_result>>
    /\ UNCHANGED <<vars, date_vars, session_vars>>

\* line 36: the method runs and raises
MethodRaises ==
    /\ call_pc = "call"
    /\ DOMAIN kwargs \subseteq MethodParams(tool)
    /\ invoked' = Some(kwargs)
    /\ \E k \in Raisable, m \in Messages : Handle([kind |-> k, msg |-> m])
    /\ UNCHANGED <<tool, args, hierarchy, kwargs, frame>>
    /\ UNCHANGED <<vars, date_vars, session_vars>>

\* line 38: the formatter returns the table
FormatReturns ==
    /\ call_pc = "format"
    /\ call_result' = Some(format_df_to_markdown(frame))
    /\ call_pc' = "done"
    /\ UNCHANGED <<tool, args, hierarchy, kwargs, invoked, frame, raised>>
    /\ UNCHANGED <<vars, date_vars, session_vars>>

\* line 38: the formatter raises
FormatRaises ==
    /\ call_pc = "format"
    /\ \E k \in Raisable, m \in Messages : Handle([kind |-> k, msg |-> m])
    /\ UNCHANGED <<tool, args, hierarchy, kwargs, invoked, frame>>
    /\ UNCHANGED <<vars, date_vars, session_vars>>

NextCall ==
    CallTool \/ InvokeFails \/ MethodReturns \/ MethodRaises \/ FormatReturns \/ FormatRaises

SpecCall == InitCall /\ [][NextCall]_all_vars

\* the text starts with 'Error:'
StartsWithError(text) == Len(text) >= 1 /\ text[1] = "Error:"

\* the tool call is over: a str was returned or an exception came out
CallOver == call_pc \in {"done", "raised"}

\* C16: for year_type '0' or '1' the required-reserve-ratio tool invokes the
\* data source method with the given start_date, end_date and that year
\* type, and returns the data as a Markdown table when the method returns
\* data; for any other year_type it returns 'Error: Invalid year_type ...'
\* without calling the data source.
C16_ReserveRatioTool ==
    tool = "get_required_reserve_ratio_data" /\ CallOver =>
       IF args.year_type \in {"0", "1"}
       THEN /\ invoked = Some([start_date |-> args.start_date,
                               end_date |-> args.end_date,
                               year_type |-> args.year_type])
            /\ frame # <<>> /\ raised = NoException =>
                  call_result.some /\ ~StartsWithError(call_result.v)
       ELSE /\ call_result.some
            /\ SubSeq(call_result.v, 1, 3) = <<"Error:", "Invalid", "year_type">>
            /\ invoked = None

\* the prefix the claim gives for an exception of class kind
ClaimedPrefix(kind) ==
    IF kind = "NoDataFoundError" THEN <<"Error:">>
    ELSE IF kind = "LoginError"
    THEN <<"Error:", "Could", "not", "connect", "to", "data", "source.">>
    ELSE IF kind = "DataSourceError"
    THEN <<"Error:", "An", "error", "occurred", "while", "fetching", "data.">>
    ELSE IF kind = "ValueError" THEN <<"Error:", "Invalid", "input", "parameter.">>
    ELSE <<"Error:", "An", "unexpected", "error", "occurred:">>

\* safe_data_source_call was entered and is over
SafeCallOver == CallOver /\ kwargs # <<>>

----------------------------------------------------------------------------
(* The stop-word cleanup applied to its own output *)

\* the call went through the cleanup (no combined rule returned early)
CleanedUp == pc = "done" /\ Len(tried) = Len(Rules)

\* C21: the stop-word cleanup is idempotent: removing the stop-words in list
\* order, trimming after each, from the cleaned name the call returns gives
\* that name again.
C21_CleanupIdempotent ==
    (CleanedUp /\ Truthy(company_name)) =>
        RemoveStopWords(company_name.v, 1) = company_name.v

----------------------------------------------------------------------------
(* safe_login, safe_logout and baostock_login_context (src/utils.py), called *)
(* by threads of one process.  bs.login() and bs.logout() are calls of the   *)
(* baostock library: each takes time (a thread is "in" the call) and ends by *)
(* returning or by raising.  A step is one access to what the threads share  *)
(* (the lock, the session, descriptor 1) together with the thread's own work *)
(* up to its next such access.                                               *)

MaxRetries == 3          \* largest retries of a call of safe_login

\* the threads of the process: a caller and one concurrent caller
Threads == { 1, 2 }

\* defaults of safe_login (line 34)
DefaultRetries == 3
DefaultDelay == 2

\* sys.stdout.fileno() (lines 67, 87)
original_stdout_fd == 1

\* descriptors of the process: 0, 1, 2 and two locals per thread
FDs == 0..(2 + 2 * Cardinality(Threads))

\* os.dup, os.open: the lowest descriptor that is not open
LowestFree(f) ==
    CHOOSE n \in FDs : f[n] = "closed" /\ \A m \in FDs : m < n => f[m] # "closed"

\* the functions a thread may call, and where each starts
Entries == { "safe_login", "safe_logout", "baostock_login_context" }
StartOf(e) ==
    IF e = "safe_login" THEN "login_acquire"
    ELSE IF e = "safe_logout" THEN "logout_acquire"
    ELSE "enter_save"

InitSession ==
    /\ ExtractIdle /\ DateIdle /\ CallIdle
    /\ baostock_lock = 0
    /\ logged_in = FALSE
    /\ fds = [n \in FDs |-> IF n = 0 THEN "stdin"
                            ELSE IF n = original_stdout_fd THEN "stdout"
                            ELSE IF n = 2 THEN "stderr" ELSE "closed"]
    /\ entry \in [Threads -> Entries]
    /\ retries \in [Threads -> 0..MaxRetries]
    /\ delay \in [Threads -> {-1, DefaultDelay}]
    \* line 75: the context calls safe_login() with the defaults
    /\ \A t \in Threads :
          entry[t] # "safe_login" =>
              retries[t] = DefaultRetries /\ delay[t] = DefaultDelay
    /\ at = [t \in Threads |-> StartOf(entry[t])]
    /\ loop_i = [t \in Threads |-> 0]
    /\ saved_stdout_fd = [t \in Threads |-> 0]
    /\ devnull_fd = [t \in Threads |-> 0]
    /\ exc = [t \in Threads |-> "none"]
    /\ calls = [t \in Threads |-> <<>>]

\* where a thread continues when safe_login returns or raises
AfterLogin(t) == IF entry[t] = "safe_login" THEN "done" ELSE "enter_restore"
\* where a thread continues when safe_logout returns
AfterLogout(t) == IF entry[t] = "safe_logout" THEN "done" ELSE "exit_restore"

\* lines 67-69 and 87-89: saved_stdout_fd = os.dup(1); devnull_fd = os.open(devnull)
Save(t) ==
    /\ at[t] \in { "enter_save", "exit_save" }
    /\ LET s  == LowestFree(fds)
           f1 == [fds EXCEPT ![s] = fds[original_stdout_fd]]
           d  == LowestFree(f1)
       IN  /\ saved_stdout_fd' = [saved_stdout_fd EXCEPT ![t] = s]
           /\ devnull_fd' = [devnull_fd EXCEPT ![t] = d]
           /\ fds' = [f1 EXCEPT ![d] = "null"]
    /\ at' = [at EXCEPT ![t] = IF at[t] = "enter_save" THEN "enter_redirect"
                               ELSE "exit_redirect"]
    /\ UNCHANGED <<baostock_lock, logged_in, entry, retries, delay, loop_i, exc, calls>>
    /\ UNCHANGED <<vars, date_vars, call_vars>>

\* lines 70-71, 75 and 90-91, 95: os.dup2(devnull_fd, 1); os.close(devnull_fd);
\* then the call of safe_login() or of safe_logout()
Redirect(t) ==
    /\ at[t] \in { "enter_redirect", "exit_redirect" }
    /\ fds' = [fds EXCEPT ![original_stdout_fd] = fds[devnull_fd[t]],
                          ![devnull_fd[t]] = "closed"]
    /\ IF at[t] = "enter_redirect"
       THEN /\ at' = [at EXCEPT ![t] = "login_acquire"]
            /\ calls' = [calls EXCEPT ![t] = Append(@, "safe_login")]
       ELSE /\ at' = [at EXCEPT ![t] = "logout_acquire"]
            /\ calls' = [calls EXCEPT ![t] = Append(@, "safe_logout")]
    /\ UNCHANGED <<baostock_lock, logged_in, entry, retries, delay, loop_i,
                   saved_stdout_fd, devnull_fd, exc>>
    /\ UNCHANGED <<vars, date_vars, call_vars>>

\* line 36: with _baostock_lock (blocks while another thread holds the lock)
AcquireLogin(t) ==
    /\ at[t] = "login_acquire"
    /\ baostock_lock = 0
    /\ baostock_lock' = t
    /\ loop_i' = [loop_i EXCEPT ![t] = 1]
    /\ at' = [at EXCEPT ![t] = "login_loop"]
    /\ UNCHANGED <<logged_in, fds, entry, retries, delay, saved_stdout_fd,
                   devnull_fd, exc, calls>>
    /\ UNCHANGED <<vars, date_vars, call_vars>>

\* variant: the loop runs once more than retries
LoopHeadOneMore(t) ==
    /\ at[t] = "login_loop"
    /\ IF loop_i[t] <= retries[t] + 1
       THEN /\ at' = [at EXCEPT ![t] = "in_logout"]
            /\ calls' = [calls EXCEPT ![t] = Append(@, "logout")]
            /\ UNCHANGED <<baostock_lock, exc>>
       ELSE /\ exc' = [exc EXCEPT ![t] = "LoginError"]
            /\ baostock_lock' = 0
            /\ at' = [at EXCEPT ![t] = AfterLogin(t)]
            /\ UNCHANGED calls
    /\ UNCHANGED <<logged_in, fds, entry, retries, delay, loop_i, saved_stdout_fd,
                   devnull_fd>>
    /\ UNCHANGED <<vars, date_vars, call_vars>>

\* lines 37-39 and 48: the head of for i in range(1, retries + 1); in the loop
\* bs.logout() is called, after the loop LoginError is raised out of the with
LoopHead(t) ==
    /\ at[t] = "login_loop"
    /\ IF loop_i[t] <= retries[t]
       THEN /\ at' = [at EXCEPT ![t] = "in_logout"]
            /\ calls' = [calls EXCEPT ![t] = Append(@, "logout")]
            /\ UNCHANGED <<baostock_lock, exc>>
       ELSE /\ exc' = [exc EXCEPT ![t] = "LoginError"]
            /\ baostock_lock' = 0
            /\ at' = [at EXCEPT ![t] = AfterLogin(t)]
            /\ UNCHANGED calls
    /\ UNCHANGED <<logged_in, fds, entry, retries, delay, loop_i, saved_stdout_fd,
                   devnull_fd>>
    /\ UNCHANGED <<vars, date_vars, call_vars>>

\* lines 39-42: bs.logout() returns (the session is logged out) or raises (the
\* exception is dropped); then bs.login() is called
LogoutEnds(t) ==
    /\ at[t] = "in_logout"
    /\ \E returns \in BOOLEAN :
          logged_in' = IF returns THEN FALSE ELSE logged_in
    /\ at' = [at EXCEPT ![t] = "in_login"]
    /\ UNCHANGED <<baostock_lock, fds, entry, retries, delay, loop_i,
                   saved_stdout_fd, devnull_fd, exc, calls>>
    /\ UNCHANGED <<vars, date_vars, call_vars>>

\* how a call of bs.login() ends: lg.error_code == "0", another error_code,
\* or an exception
LoginOutcomes == { "login_0", "login_error", "login_raises" }

\* lines 42-46: bs.login() returns with error_code '0' (safe_login returns),
\* returns with another error_code, or raises (the exception leaves the with)
LoginEnds(t) ==
    /\ at[t] = "in_login"
    /\ \E outcome \in LoginOutcomes :
          /\ calls' = [calls EXCEPT ![t] = Append(@, outcome)]
          /\ IF outcome = "login_0"
             THEN /\ logged_in' = TRUE
                  /\ baostock_lock' = 0
                  /\ at' = [at EXCEPT ![t] = AfterLogin(t)]
                  /\ UNCHANGED exc
             ELSE IF outcome = "login_error"
             THEN /\ at' = [at EXCEPT ![t] = "sleep"]
                  /\ UNCHANGED <<logged_in, baostock_lock, exc>>
             ELSE /\ exc' = [exc EXCEPT ![t] = "Exception"]
                  /\ baostock_lock' = 0
                  /\ at' = [at EXCEPT ![t] = AfterLogin(t)]
                  /\ UNCHANGED logged_in
    /\ UNCHANGED <<fds, entry, retries, delay, loop_i, saved_stdout_fd, devnull_fd>>
    /\ UNCHANGED <<vars, date_vars, call_vars>>

\* line 47: time.sleep(delay) raises ValueError for a negative delay
Sleep(t) ==
    /\ at[t] = "sleep"
    /\ IF delay[t] < 0
       THEN /\ exc' = [exc EXCEPT ![t] = "ValueError"]
            /\ baostock_lock' = 0
            /\ at' = [at EXCEPT ![t] = AfterLogin(t)]
            /\ UNCHANGED loop_i
       ELSE /\ loop_i' = [loop_i EXCEPT ![t] = @ + 1]
            /\ at' = [at EXCEPT ![t] = "login_loop"]
            /\ UNCHANGED <<baostock_lock, exc>>
    /\ UNCHANGED <<logged_in, fds, entry, retries, delay, saved_stdout_fd,
                   devnull_fd, calls>>
    /\ UNCHANGED <<vars, date_vars, call_vars>>

\* variant: safe_logout calls bs.logout() without waiting for the lock
AcquireLogoutNoLock(t) ==
    /\ at[t] = "logout_acquire"
    /\ baostock_lock' = t
    /\ at' = [at EXCEPT ![t] = "in_safe_logout"]
    /\ calls' = [calls EXCEPT ![t] = Append(@, "logout")]
    /\ UNCHANGED <<logged_in, fds, entry, retries, delay, loop_i, saved_stdout_fd,
                   devnull_fd, exc>>
    /\ UNCHANGED <<vars, date_vars, call_vars>>

\* lines 53-55: with _baostock_lock, then bs.logout() is called
AcquireLogout(t) ==
    /\ at[t] = "logout_acquire"
    /\ baostock_lock = 0
    /\ baostock_lock' = t
    /\ at' = [at EXCEPT ![t] = "in_safe_logout"]
    /\ calls' = [calls EXCEPT ![t] = Append(@, "logout")]
    /\ UNCHANGED <<logged_in, fds, entry, retries, delay, loop_i, saved_stdout_fd,
                   devnull_fd, exc>>
    /\ UNCHANGED <<vars, date_vars, call_vars>>

\* lines 55-58: bs.logout() returns or raises (the exception is logged and
\* dropped); safe_logout leaves the with and returns
SafeLogoutEnds(t) ==
    /\ at[t] = "in_safe_logout"
    /\ \E returns \in BOOLEAN :
          logged_in' = IF returns THEN FALSE ELSE logged_in
    /\ baostock_lock' = 0
    /\ at' = [at EXCEPT ![t] = AfterLogout(t)]
    /\ UNCHANGED <<fds, entry, retries, delay, loop_i, saved_stdout_fd, devnull_fd,
                   exc, calls>>
    /\ UNCHANGED <<vars, date_vars, call_vars>>

\* variant: the body starts whether safe_login raised or not
RestoreThenBody(t) ==
    /\ at[t] \in { "enter_restore", "exit_restore" }
    /\ fds' = [fds EXCEPT ![original_stdout_fd] = fds[saved_stdout_fd[t]],
                          ![saved_stdout_fd[t]] = "closed"]
    /\ at' = [at EXCEPT ![t] =
                 IF at[t] = "enter_restore" THEN "body" ELSE "done"]
    /\ UNCHANGED <<baostock_lock, logged_in, entry, retries, delay, loop_i,
                   saved_stdout_fd, devnull_fd, exc, calls>>
    /\ UNCHANGED <<vars, date_vars, call_vars>>

\* lines 76-81 and 96-101: os.dup2(saved_stdout_fd, 1); os.close(saved_stdout_fd);
\* after the login an exception of safe_login goes on to the caller, otherwise
\* the body of the with statement starts; after the logout the context is left
Restore(t) ==
    /\ at[t] \in { "enter_restore", "exit_restore" }
    /\ fds' = [fds EXCEPT ![original_stdout_fd] = fds[saved_stdout_fd[t]],
                          ![saved_stdout_fd[t]] = "closed"]
    /\ at' = [at EXCEPT ![t] =
                 IF at[t] = "enter_restore" /\ exc[t] = "none" THEN "body" ELSE "done"]
    /\ UNCHANGED <<baostock_lock, logged_in, entry, retries, delay, loop_i,
                   saved_stdout_fd, devnull_fd, exc, calls>>
    /\ UNCHANGED <<vars, date_vars, call_vars>>

\* lines 82-85: the body of the with statement (the Baostock query of the
\* caller, utils.py lines 137-160) returns or raises; the finally clause follows
Body(t) ==
    /\ at[t] = "body"
    /\ \E raises \in BOOLEAN :
          exc' = [exc EXCEPT ![t] = IF raises THEN "BodyError" ELSE "none"]
    /\ calls' = [calls EXCEPT ![t] = Append(@, "body")]
    /\ at' = [at EXCEPT ![t] = "exit_save"]
    /\ UNCHANGED <<baostock_lock, logged_in, fds, entry, retries, delay, loop_i,
                   saved_stdout_fd, devnull_fd>>
    /\ UNCHANGED <<vars, date_vars, call_vars>>

NextSession ==
    \E t \in Threads :
        \/ Save(t) \/ Redirect(t) \/ AcquireLogin(t) \/ LoopHead(t) \/ LogoutEnds(t)
        \/ LoginEnds(t) \/ Sleep(t) \/ AcquireLogout(t) \/ SafeLogoutEnds(t)
        \/ Restore(t) \/ Body(t)

SpecSession == InitSession /\ [][NextSession]_all_vars

\* a thread that can run is run: the interpreter switches between the threads
FairSession == SpecSession /\ WF_all_vars(NextSession)

----------------------------------------------------------------------------
(* safe_login(retries, delay) *)

\* the threads that call safe_login themselves
LoginCallers == { t \in Threads : entry[t] = "safe_login" }
\* the positions of the login attempts among the calls of thread t
Attempts(t) == { k \in DOMAIN calls[t] : calls[t][k] \in LoginOutcomes }
\* the attempts that returned an error_code other than '0'
FailedAttempts(t) == { k \in DOMAIN calls[t] : calls[t][k] = "login_error" }

\* at most retries attempts, each right after a logout call; nothing follows
\* the attempt that returned '0'; the lock is free of a caller that is out
LoginCallsInOrder(t) ==
    /\ Cardinality(Attempts(t)) <= retries[t]
    /\ \A k \in Attempts(t) : k > 1 /\ calls[t][k - 1] = "logout"
    /\ \A k \in DOMAIN calls[t] :
          calls[t][k] = "login_0" =>
              k = Len(calls[t]) /\ at[t] = "done" /\ exc[t] = "none"
    /\ at[t] = "done" => baostock_lock # t

\* every caller of safe_login is out of it
LoginCallersOut == \A t \in LoginCallers : at[t] = "done"

----------------------------------------------------------------------------
(* Threads inside bs.login() and bs.logout() *)

\* thread t is executing bs.login() or bs.logout()
InBaostockCall(t) == at[t] \in { "in_logout", "in_login", "in_safe_logout" }

\* C23: under any interleaving of threads that use safe_login and
\* safe_logout, no two threads execute bs.login() or bs.logout() at the same
\* time: a thread inside such a call holds _baostock_lock.
C23_MutualExclusion ==
    /\ \A t \in Threads : InBaostockCall(t) => baostock_lock = t
    /\ \A t, u \in Threads : InBaostockCall(t) /\ InBaostockCall(u) => t = u

\* one thread is inside bs.login() while the other waits for the lock in
\* safe_logout
C23_Witness ==
    \E t, u \in Threads :
        /\ at[t] = "in_login" /\ baostock_lock = t
        /\ at[u] = "logout_acquire"

----------------------------------------------------------------------------
(* The session and descriptor 1 under concurrent callers of the context *)

\* C24: while a caller executes the body of baostock_login_context, the
\* shared Baostock session stays logged in: no concurrent safe_login or
\* safe_logout logs it out.
C24_SessionStaysLoggedIn ==
    \A t \in Threads : at[t] = "body" => logged_in

\* C25: once every caller of baostock_login_context has left the context,
\* the process's stdout descriptor refers to the original stdout again and
\* not to the null device.
C25_StdoutRestored ==
    (\A t \in Threads : at[t] = "done") => fds[original_stdout_fd] = "stdout"

----------------------------------------------------------------------------
(* Login and logout of one baostock_login_context *)

\* the positions of a call among the calls of thread t
Positions(t, c) == { k \in DOMAIN calls[t] : calls[t][k] = c }
\* the body of thread t's with statement has started
BodyStarted(t) == at[t] = "body" \/ Positions(t, "body") # {}
\* safe_login raised in thread t
LoginRaised(t) ==
    /\ Positions(t, "safe_login") # {}
    /\ Positions(t, "login_0") = {}
    /\ exc[t] \in { "LoginError", "Exception", "ValueError" }

\* C26: in baostock_login_context the body runs only after safe_login has
\* succeeded; if safe_login raises, the body never runs and the context does
\* not call safe_logout; if the login succeeded, safe_logout is called
\* exactly once, after the body, whether the body returns or raises.
C26_LoginLogoutPairing ==
    \A t \in Threads :
        entry[t] = "baostock_login_context" =>
            /\ BodyStarted(t) => Positions(t, "login_0") # {}
            /\ LoginRaised(t) =>
                  ~BodyStarted(t) /\ Positions(t, "safe_logout") = {}
            /\ Cardinality(Positions(t, "safe_logout")) <= 1
            /\ \A k \in Positions(t, "safe_logout") :
                  \E b \in Positions(t, "body") : b < k
            /\ (at[t] = "done" /\ Positions(t, "login_0") # {}) =>
                  /\ Cardinality(Positions(t, "body")) = 1
                  /\ Cardinality(Positions(t, "safe_logout")) = 1

\* one context has been left by an exception of its body, after its single
\* safe_logout; the other has been left by a LoginError, without body
C26_Witness ==
    \E t, u \in Threads :
        /\ entry[t] = "baostock_login_context" /\ at[t] = "done"
        /\ exc[t] = "BodyError"
        /\ calls[t] = << "safe_login", "logout", "login_0", "body", "safe_logout",
                         "logout" >>
        /\ entry[u] = "baostock_login_context" /\ at[u] = "done"
        /\ exc[u] = "LoginError"
        /\ Positions(u, "body") = {} /\ Positions(u, "safe_logout") = {}

====
